---- MODULE Spec2Model ----
(***************************************************************************)
(* FireFly 2D simulation: the wildfire cellular automaton with its         *)
(* incident tracker (src/core/fire.py), the four-sensor fleet state        *)
(* machine (src/core/drone.py) and the fixed-step driver (src/main.py).    *)
(*                                                                         *)
(* Lengths are integer pixels and time is an integer number of time units; *)
(* every random draw of the code is a nondeterministic choice.             *)
(***************************************************************************)
EXTENDS Integers, Sequences, FiniteSets, TLC

\* ------------------------------------------------------------------ bounds
\* sim_t is capped so that the timestamps stay bounded.
MaxTime == 7
\* number of user clicks (ignite_world calls) in a run
MaxUserIgnitions == 1
\* number of background ignitions that succeed in drawing a cell
MaxRandomIgnitions == 1
\* frames of length zero happen up to this sim_t
MaxZeroFrameTime == 3
MaxDenominator == 3

\* ------------------------------------------------- configuration (settings)
\* The values are those of configs/settings.py scaled down to a 3 x 2 grid
\* and to integer time steps; the orderings the code relies on are kept
\* (recover_T and burn_duration exceed one step, merge_r covers a neighbour).
screen_width == 12
screen_height == 8
fire_cell_px == 4
burn_duration == 5
recover_T == 2
RegenAmortize == 1
quench == 1
spot_max_cells == 1
merge_r == 4
monitor_r == 4
delay_s == 1
click_ignite_radius_px == 5
\* wind direction of the ember spots: the integer sign of the wind unit vector
SpotDx == 1
SpotDy == 0
\* the frame steps the driver hands to update and move
DTs == {1}

\* sensors (configs/settings.py, Drone.__init__)
speed == 4
start_delay == 1
drone_radius == 1
fov_radius == 1
base_radius == 2
mc_cell_px == 2
replan_T == 1
charge_T == 1
work_T == 6
reserve_seconds == 1
det_confirm_time == 2
det_cooldown_s == 2
\* rationals are pairs <<numerator, denominator>>
return_threshold == <<1, 5>>
det_min_frac == <<1, 100>>
detect_strength == <<1, 1>>
diffusion == <<0, 1>>
\* duty_jitter_frac * work_T: the work period drawn is work_T - WorkJitter
\* or work_T + WorkJitter, the ends of the jitter interval
WorkJitter == 2
\* the points random.uniform draws in _replan_target: these coordinates,
\* where they fall in the sensor's safe rectangle
SampleXs == {2, 7, 10}
SampleYs == {2, 6}

APPROACH == 0
SEARCH == 2
RETURN == 3
RECHARGE == 4
HOLD == 5

UNBURNED == 0
BURNING == 1
BURNED == 2
BARRIER == 3

INF == 99
NONE == -1
\* mc_target = None
NoTarget == << >>

Min2(a, b) == IF a <= b THEN a ELSE b
Max2(a, b) == IF a >= b THEN a ELSE b
Sq(a) == a * a
Last(s) == s[Len(s)]
Range(s) == {s[k] : k \in 1..Len(s)}

\* ------------------------------------------------------------------- grid
GW == screen_width \div fire_cell_px
GH == screen_height \div fire_cell_px
NCells == GW * GH
Cells == 0..(NCells - 1)

_idx(gx, gy) == gy * GW + gx
GxOf(idx) == idx % GW
GyOf(idx) == idx \div GW
InGrid(gx, gy) == 0 <= gx /\ gx < GW /\ 0 <= gy /\ gy < GH
CenterX(idx) == GxOf(idx) * fire_cell_px + fire_cell_px \div 2
CenterY(idx) == GyOf(idx) * fire_cell_px + fire_cell_px \div 2

\* the 8-neighbourhood, in the order of Fire.neigh
neigh == << <<-1, 0>>, <<1, 0>>, <<0, -1>>, <<0, 1>>,
            <<-1, -1>>, <<1, -1>>, <<1, 1>>, <<-1, 1>> >>

Adjacent(a, b) ==
    /\ a # b
    /\ GxOf(a) - GxOf(b) \in {-1, 0, 1}
    /\ GyOf(a) - GyOf(b) \in {-1, 0, 1}

\* cells whose centre lies in the disc (the clamped bounding box of the code
\* holds every such cell)
DiscCells(x, y, r) ==
    {i \in Cells : Sq(CenterX(i) - x) + Sq(CenterY(i) - y) <= r * r}

\* ------------------------------------------------------------- fire engine
\* Fire.burning_fraction_in_disc: the counts and the hotspot cells
BurningInDisc(f, x, y, r) == {i \in DiscCells(x, y, r) : f.state[i] = BURNING}

\* frac > 0.0
FracPositive(f, x, y, r) == BurningInDisc(f, x, y, r) # {}

\* Fire.footprint_in_disc: cells_fire (burning + burned)
footprint_in_disc(f, x, y, r) ==
    Cardinality({i \in DiscCells(x, y, r) : f.state[i] \in {BURNING, BURNED}})

\* Fire._incident_area_by_tag_m2, in cells
_incident_area_by_tag(f, inc_id) ==
    Cardinality({i \in Cells : f.tag[i] = inc_id /\ f.state[i] \in {BURNING, BURNED}})

RECURSIVE MinOver(_, _)
MinOver(S, g) ==
    IF S = {} THEN INF
    ELSE LET i == CHOOSE j \in S : TRUE
         IN Min2(g[i], MinOver(S \ {i}, g))

\* Fire._estimate_ignited_time_near
_estimate_ignited_time_near(f, cx, cy, r) ==
    LET earliest == MinOver(BurningInDisc(f, cx, cy, r), f.t_ignited)
    IN IF earliest = INF THEN f.sim_t ELSE earliest

\* Fire.active, the frontier list, is kept as the number of times each index
\* is in it: the order of the list decides only the order of the next list.
InActive(f) == {i \in Cells : f.active[i] > 0}
NoActive == [i \in Cells |-> 0]

\* the frontier as a list, ascending
RECURSIVE ActiveSeq(_, _)
ActiveSeq(act, i) ==
    IF i >= NCells THEN << >>
    ELSE (IF act[i] = 0 THEN << >>
          ELSE IF act[i] = 1 THEN <<i>>
          ELSE [k \in 1..act[i] |-> i]) \o ActiveSeq(act, i + 1)

\* _ignite_cell addressing the cell by its row-major index alone
_ignite_cell_by_index(f, gx, gy) ==
    LET idx == _idx(gx, gy) % NCells
    IN IF f.state[idx] = UNBURNED
       THEN [f EXCEPT !.state[idx] = BURNING,
                      !.burn_t[idx] = 0,
                      !.t_ignited[idx] = f.sim_t,
                      !.active[idx] = f.active[idx] + 1]
       ELSE f

\* _ignite_cell lighting the cell to the east as well
_ignite_cell_and_east(f, gx, gy) ==
    IF ~InGrid(gx, gy) THEN f
    ELSE LET lit == {c \in {_idx(gx, gy)} \cup (IF InGrid(gx + 1, gy) THEN {_idx(gx + 1, gy)} ELSE {}) :
                        f.state[c] = UNBURNED}
         IN [f EXCEPT !.state = [c \in Cells |-> IF c \in lit THEN BURNING ELSE @[c]],
                      !.burn_t = [c \in Cells |-> IF c \in lit THEN 0 ELSE @[c]],
                      !.t_ignited = [c \in Cells |-> IF c \in lit THEN f.sim_t ELSE @[c]],
                      !.active = [c \in Cells |-> IF c \in lit THEN @[c] + 1 ELSE @[c]]]

\* _ignite_cell without the test that the cell is UNBURNED
_ignite_cell_any_state(f, gx, gy) ==
    IF ~InGrid(gx, gy) THEN f
    ELSE LET idx == _idx(gx, gy)
         IN [f EXCEPT !.state[idx] = BURNING,
                      !.burn_t[idx] = 0,
                      !.t_ignited[idx] = f.sim_t,
                      !.active[idx] = f.active[idx] + 1]

\* Fire._ignite_cell
_ignite_cell(f, gx, gy) ==
    IF ~InGrid(gx, gy) THEN f
    ELSE LET idx == _idx(gx, gy)
         IN IF f.state[idx] = UNBURNED
            THEN [f EXCEPT !.state[idx] = BURNING,
                           !.burn_t[idx] = 0,
                           !.t_ignited[idx] = f.sim_t,
                           !.active[idx] = f.active[idx] + 1]
            ELSE f

\* Fire.ignite_world: the cells of the disc of r_cells around the clicked cell
IgniteOffsets ==
    LET r_cells == Max2(0, click_ignite_radius_px \div fire_cell_px)
    IN IF click_ignite_radius_px <= 0 THEN << <<0, 0>> >>
       ELSE LET offs(oy) == {<<ox, oy>> : ox \in {o \in (-r_cells)..r_cells :
                                                   o * o + oy * oy <= r_cells * r_cells}}
                RECURSIVE RowSeq(_, _)
                RowSeq(oy, ox) ==
                    IF ox > r_cells THEN << >>
                    ELSE (IF <<ox, oy>> \in offs(oy) THEN << <<ox, oy>> >> ELSE << >>)
                         \o RowSeq(oy, ox + 1)
                RECURSIVE AllRows(_)
                AllRows(oy) ==
                    IF oy > r_cells THEN << >>
                    ELSE RowSeq(oy, -r_cells) \o AllRows(oy + 1)
            IN AllRows(-r_cells)

RECURSIVE IgniteSeq(_, _, _, _)
IgniteSeq(f, gx, gy, k) ==
    IF k > Len(IgniteOffsets) THEN f
    ELSE IgniteSeq(_ignite_cell(f, gx + IgniteOffsets[k][1], gy + IgniteOffsets[k][2]),
                   gx, gy, k + 1)

ignite_world(f, x_px, y_px) ==
    LET g == [f EXCEPT !.user_ignitions = f.user_ignitions + 1]
    IN IgniteSeq(g, x_px \div fire_cell_px, y_px \div fire_cell_px, 1)

\* Fire.get_incident: the position of the record in Fire.incidents, 0 if none
IncPos(f, inc_id) ==
    IF \E k \in 1..Len(f.incidents) : f.incidents[k].id = inc_id
    THEN CHOOSE k \in 1..Len(f.incidents) :
             /\ f.incidents[k].id = inc_id
             /\ \A j \in 1..(k - 1) : f.incidents[j].id # inc_id
    ELSE 0

\* the merge test without the look at the incident's active flag
MergeMatch_any_incident(f, cx, cy) ==
    LET hits == {k \in 1..Len(f.incidents) :
                    Sq(cx - f.incidents[k].cx) + Sq(cy - f.incidents[k].cy)
                       <= f.merge_r2}
    IN IF hits = {} THEN 0 ELSE CHOOSE k \in hits : \A j \in hits : k <= j

\* the first active incident within the merge radius, 0 if none
MergeMatch(f, cx, cy) ==
    LET hits == {k \in 1..Len(f.incidents) :
                    /\ f.incidents[k].active
                    /\ Sq(cx - f.incidents[k].cx) + Sq(cy - f.incidents[k].cy)
                          <= f.merge_r2}
    IN IF hits = {} THEN 0 ELSE CHOOSE k \in hits : \A j \in hits : k <= j

\* register_incident tagging the BURNING cells of the monitor disc at once
register_incident_tagging(f, cx, cy) ==
    LET g == [f EXCEPT !.episode_has_incident = TRUE]
        m == MergeMatch(g, cx, cy)
    IN IF m # 0 THEN <<g, g.incidents[m].id, FALSE>>
       ELSE LET inc_id == g.next_incident_id
                ign_t == _estimate_ignited_time_near(g, cx, cy, g.monitor_r)
                det_t == g.sim_t
                area == footprint_in_disc(g, cx, cy, g.monitor_r)
                inc == [id |-> inc_id, cx |-> cx, cy |-> cy,
                        delay |-> g.delay_s, zone_live |-> FALSE, active |-> TRUE,
                        ignited_t |-> ign_t, detected_t |-> det_t,
                        suppressed_t |-> NONE, extinguished_t |-> NONE,
                        detect_area |-> area, final_area |-> NONE,
                        announced_suppression |-> FALSE,
                        announced_extinguished |-> FALSE]
            IN << [g EXCEPT !.next_incident_id = inc_id + 1,
                            !.det_times = Append(g.det_times, Max2(0, det_t - ign_t)),
                            !.detect_areas = Append(g.detect_areas, area),
                            !.incidents = Append(g.incidents, inc),
                            !.tag = [i \in Cells |->
                                        IF i \in BurningInDisc(g, cx, cy, g.monitor_r)
                                        THEN inc_id ELSE g.tag[i]]],
                  inc_id, TRUE >>

\* register_incident recording the detection metrics of a merged detection
\* too
register_incident_counting_merges(f, cx, cy) ==
    LET g == [f EXCEPT !.episode_has_incident = TRUE]
        m == MergeMatch(g, cx, cy)
        ign_t == _estimate_ignited_time_near(g, cx, cy, g.monitor_r)
        det_t == g.sim_t
        area == footprint_in_disc(g, cx, cy, g.monitor_r)
    IN IF m # 0
       THEN << [g EXCEPT !.det_times = Append(g.det_times, Max2(0, det_t - ign_t)),
                         !.detect_areas = Append(g.detect_areas, area)],
               g.incidents[m].id, FALSE >>
       ELSE LET inc_id == g.next_incident_id
                inc == [id |-> inc_id, cx |-> cx, cy |-> cy,
                        delay |-> g.delay_s, zone_live |-> FALSE, active |-> TRUE,
                        ignited_t |-> ign_t, detected_t |-> det_t,
                        suppressed_t |-> NONE, extinguished_t |-> NONE,
                        detect_area |-> area, final_area |-> NONE,
                        announced_suppression |-> FALSE,
                        announced_extinguished |-> FALSE]
            IN << [g EXCEPT !.next_incident_id = inc_id + 1,
                            !.det_times = Append(g.det_times, Max2(0, det_t - ign_t)),
                            !.detect_areas = Append(g.detect_areas, area),
                            !.incidents = Append(g.incidents, inc)],
                  inc_id, TRUE >>

\* Fire.register_incident: <<fire', inc_id, is_new>>
register_incident(f, cx, cy) ==
    LET g == [f EXCEPT !.episode_has_incident = TRUE]
        m == MergeMatch(g, cx, cy)
    IN IF m # 0 THEN <<g, g.incidents[m].id, FALSE>>
       ELSE LET inc_id == g.next_incident_id
                ign_t == _estimate_ignited_time_near(g, cx, cy, g.monitor_r)
                det_t == g.sim_t
                area == footprint_in_disc(g, cx, cy, g.monitor_r)
                inc == [id |-> inc_id, cx |-> cx, cy |-> cy,
                        delay |-> g.delay_s, zone_live |-> FALSE, active |-> TRUE,
                        ignited_t |-> ign_t, detected_t |-> det_t,
                        suppressed_t |-> NONE, extinguished_t |-> NONE,
                        detect_area |-> area, final_area |-> NONE,
                        announced_suppression |-> FALSE,
                        announced_extinguished |-> FALSE]
            IN << [g EXCEPT !.next_incident_id = inc_id + 1,
                            !.det_times = Append(g.det_times, Max2(0, det_t - ign_t)),
                            !.detect_areas = Append(g.detect_areas, area),
                            !.incidents = Append(g.incidents, inc)],
                  inc_id, TRUE >>

\* incident_is_active stamping the extinguishment at every inactive call
incident_is_active_restamp(f, inc_id) ==
    LET k == IncPos(f, inc_id)
    IN IF k = 0 THEN <<f, FALSE>>
       ELSE LET inc == f.incidents[k]
            IN IF inc.zone_live
               THEN IF \E idx \in InActive(f) :
                           f.tag[idx] = inc_id /\ f.state[idx] = BURNING
                    THEN << [f EXCEPT !.incidents[k].active = TRUE], TRUE >>
                    ELSE LET final_area == _incident_area_by_tag(f, inc_id)
                         IN << [f EXCEPT !.incidents[k].active = FALSE,
                                         !.incidents[k].extinguished_t = f.sim_t,
                                         !.incidents[k].final_area = final_area,
                                         !.final_areas = Append(f.final_areas, final_area),
                                         !.extinguished_count = f.extinguished_count + 1],
                               FALSE >>
               ELSE LET a == FracPositive(f, inc.cx, inc.cy, f.monitor_r)
                    IN << [f EXCEPT !.incidents[k].active = a], a >>

\* Fire.incident_is_active: <<fire', result>>
incident_is_active(f, inc_id) ==
    LET k == IncPos(f, inc_id)
    IN IF k = 0 THEN <<f, FALSE>>
       ELSE LET inc == f.incidents[k]
            IN IF inc.zone_live
               THEN IF \E idx \in InActive(f) :
                           f.tag[idx] = inc_id /\ f.state[idx] = BURNING
                    THEN << [f EXCEPT !.incidents[k].active = TRUE], TRUE >>
                    ELSE IF inc.extinguished_t = NONE
                         THEN LET final_area == _incident_area_by_tag(f, inc_id)
                              IN << [f EXCEPT !.incidents[k].active = FALSE,
                                              !.incidents[k].extinguished_t = f.sim_t,
                                              !.incidents[k].final_area = final_area,
                                              !.final_areas = Append(f.final_areas, final_area),
                                              !.extinguished_count = f.extinguished_count + 1],
                                    FALSE >>
                         ELSE <<f, FALSE>>
               ELSE LET a == FracPositive(f, inc.cx, inc.cy, f.monitor_r)
                    IN << [f EXCEPT !.incidents[k].active = a], a >>

\* Fire.mark_incident_announced
mark_incident_announced(f, inc_id, what) ==
    LET k == IncPos(f, inc_id)
    IN IF k = 0 THEN f
       ELSE IF what = "suppression"
            THEN [f EXCEPT !.incidents[k].announced_suppression = TRUE]
            ELSE [f EXCEPT !.incidents[k].announced_extinguished = TRUE]

\* the BFS of Fire._label_incident_cluster: from the cells popped so far, the
\* untagged BURNING neighbours of the BURNING ones are pushed
RECURSIVE LabelReach(_, _)
LabelReach(f, V) ==
    LET more == {n \in Cells \ V :
                    /\ f.state[n] = BURNING /\ f.tag[n] = 0
                    /\ \E v \in V : f.state[v] = BURNING /\ Adjacent(v, n)}
    IN IF more = {} THEN V ELSE LabelReach(f, V \cup more)

\* min(self.active, key=d2): a cell of the frontier at least distance (of
\* several, the code takes the first of the list, the model the least index)
NearestActive(f, cx0, cy0) ==
    LET d2(idx) == Sq(CenterX(idx) - cx0) + Sq(CenterY(idx) - cy0)
        best == {a \in InActive(f) : \A b \in InActive(f) : d2(a) <= d2(b)}
    IN CHOOSE a \in best : \A b \in best : a <= b

\* _label_incident_cluster tagging the seeds alone, without the search
_label_incident_cluster_seeds_only(f, inc) ==
    LET inDisc == InActive(f) \cap DiscCells(inc.cx, inc.cy, f.monitor_r)
        seeds == IF inDisc # {} THEN inDisc
                 ELSE IF InActive(f) = {} THEN {}
                 ELSE {NearestActive(f, inc.cx, inc.cy)}
    IN [f EXCEPT !.tag = [i \in Cells |->
                              IF i \in seeds /\ f.state[i] = BURNING /\ f.tag[i] = 0
                              THEN inc.id ELSE f.tag[i]]]

\* Fire._label_incident_cluster
_label_incident_cluster(f, inc) ==
    LET inDisc == InActive(f) \cap DiscCells(inc.cx, inc.cy, f.monitor_r)
        seeds == IF inDisc # {} THEN inDisc
                 ELSE IF InActive(f) = {} THEN {}
                 ELSE {NearestActive(f, inc.cx, inc.cy)}
        visited == LabelReach(f, seeds)
    IN [f EXCEPT !.tag = [i \in Cells |->
                              IF i \in visited /\ f.state[i] = BURNING /\ f.tag[i] = 0
                              THEN inc.id ELSE f.tag[i]]]

\* _update_incidents arming the suppression at the first tick, whatever the
\* delay left
RECURSIVE _update_incidents_at_once(_, _, _)
_update_incidents_at_once(f, dt, k) ==
    IF k > Len(f.incidents) THEN f
    ELSE LET inc == f.incidents[k]
         IN IF inc.zone_live THEN _update_incidents_at_once(f, dt, k + 1)
            ELSE IF ~FracPositive(f, inc.cx, inc.cy, f.monitor_r)
                 THEN _update_incidents_at_once([f EXCEPT !.incidents[k].active = FALSE],
                                                dt, k + 1)
                 ELSE LET g == [f EXCEPT !.incidents[k].delay = inc.delay - dt,
                                         !.incidents[k].zone_live = TRUE,
                                         !.incidents[k].suppressed_t = f.sim_t]
                          h == _label_incident_cluster(g, g.incidents[k])
                      IN _update_incidents_at_once(
                             [h EXCEPT !.dispatch_count = h.dispatch_count + 1],
                             dt, k + 1)

\* Fire._update_incidents, from the k-th incident on
RECURSIVE _update_incidents(_, _, _)
_update_incidents(f, dt, k) ==
    IF k > Len(f.incidents) THEN f
    ELSE LET inc == f.incidents[k]
         IN IF inc.zone_live THEN _update_incidents(f, dt, k + 1)
            ELSE IF ~FracPositive(f, inc.cx, inc.cy, f.monitor_r)
                 THEN _update_incidents([f EXCEPT !.incidents[k].active = FALSE], dt, k + 1)
                 ELSE IF inc.delay - dt <= 0
                      THEN LET g == [f EXCEPT !.incidents[k].delay = inc.delay - dt,
                                              !.incidents[k].zone_live = TRUE,
                                              !.incidents[k].suppressed_t = f.sim_t]
                               h == _label_incident_cluster(g, g.incidents[k])
                           IN _update_incidents(
                                  [h EXCEPT !.dispatch_count = h.dispatch_count + 1],
                                  dt, k + 1)
                      ELSE _update_incidents(
                               [f EXCEPT !.incidents[k].delay = inc.delay - dt], dt, k + 1)

\* _recover_burned clearing the scorched mark of the recovered cells
_recover_burned_unmark(f, dt) ==
    IF recover_T <= 0 THEN f
    ELSE IF f.regen_accum + dt < RegenAmortize
         THEN [f EXCEPT !.regen_accum = f.regen_accum + dt]
         ELSE LET step == f.regen_accum + dt
                  back == {i \in Cells : f.state[i] = BURNED /\ f.regen_t[i] + step >= recover_T}
              IN [f EXCEPT
                    !.regen_accum = 0,
                    !.regen_t = [i \in Cells |->
                                    IF f.state[i] # BURNED THEN f.regen_t[i]
                                    ELSE IF i \in back THEN 0 ELSE f.regen_t[i] + step],
                    !.state = [i \in Cells |-> IF i \in back THEN UNBURNED ELSE f.state[i]],
                    !.burn_t = [i \in Cells |-> IF i \in back THEN 0 ELSE f.burn_t[i]],
                    !.tag = [i \in Cells |-> IF i \in back THEN 0 ELSE f.tag[i]],
                    !.ever_burned = [i \in Cells |-> IF i \in back THEN FALSE ELSE f.ever_burned[i]]]

\* _recover_burned leaving the stale tag on the recovered cells
_recover_burned_keep_tag(f, dt) ==
    IF recover_T <= 0 THEN f
    ELSE IF f.regen_accum + dt < RegenAmortize
         THEN [f EXCEPT !.regen_accum = f.regen_accum + dt]
         ELSE LET step == f.regen_accum + dt
                  back == {i \in Cells : f.state[i] = BURNED /\ f.regen_t[i] + step >= recover_T}
              IN [f EXCEPT
                    !.regen_accum = 0,
                    !.regen_t = [i \in Cells |->
                                    IF f.state[i] # BURNED THEN f.regen_t[i]
                                    ELSE IF i \in back THEN 0 ELSE f.regen_t[i] + step],
                    !.state = [i \in Cells |-> IF i \in back THEN UNBURNED ELSE f.state[i]],
                    !.burn_t = [i \in Cells |-> IF i \in back THEN 0 ELSE f.burn_t[i]]]

\* Fire._recover_burned (the fuel and moisture redrawn there are not modelled)
_recover_burned(f, dt) ==
    IF recover_T <= 0 THEN f
    ELSE IF f.regen_accum + dt < RegenAmortize
         THEN [f EXCEPT !.regen_accum = f.regen_accum + dt]
         ELSE LET step == f.regen_accum + dt
                  back == {i \in Cells : f.state[i] = BURNED /\ f.regen_t[i] + step >= recover_T}
              IN [f EXCEPT
                    !.regen_accum = 0,
                    !.regen_t = [i \in Cells |->
                                    IF f.state[i] # BURNED THEN f.regen_t[i]
                                    ELSE IF i \in back THEN 0 ELSE f.regen_t[i] + step],
                    !.state = [i \in Cells |-> IF i \in back THEN UNBURNED ELSE f.state[i]],
                    !.burn_t = [i \in Cells |-> IF i \in back THEN 0 ELSE f.burn_t[i]],
                    !.tag = [i \in Cells |-> IF i \in back THEN 0 ELSE f.tag[i]]]

\* ----------------------------------------------------------- Fire.update
\* The frontier loop of Fire.update works on a loop record L: the fire f, the
\* list queue the loop runs over (self.active, which _ember_spot extends while
\* the loop runs) with the position k in it, next_active with its set
\* seen_next, and what the loop did: lit_tags holds the tag of every cell
\* that ignited a neighbour, spot_tags the tag of every cell whose ember draw
\* passed.

\* p_ignite = 1 - exp(-lam), lam = k_ignite * R * dt / dpx: positive exactly
\* when dt > 0 (fuel >= 0.1 and moist < moisture_ext), and below 1
CanIgnite(dt) == dt > 0

\* the neighbour step without the test that the neighbour is UNBURNED
NbrOutcomes_any_state(L, idx, j, dt) ==
    LET ngx == GxOf(idx) + neigh[j][1]
        ngy == GyOf(idx) + neigh[j][2]
        nidx == _idx(ngx, ngy)
    IN IF ~InGrid(ngx, ngy) THEN {L}
       ELSE IF ~CanIgnite(dt) THEN {L}
       ELSE {L,
             [L EXCEPT !.f.state[nidx] = BURNING,
                       !.f.burn_t[nidx] = 0,
                       !.f.t_ignited[nidx] = L.f.sim_t,
                       !.next_active[nidx] = IF nidx \in L.seen_next THEN @ ELSE @ + 1,
                       !.seen_next = L.seen_next \cup {nidx},
                       !.lit_tags = L.lit_tags \cup {L.f.tag[idx]}]}

\* one neighbour of the loop's cell idx: the rng draw passes or fails
NbrOutcomes(L, idx, j, dt) ==
    LET ngx == GxOf(idx) + neigh[j][1]
        ngy == GyOf(idx) + neigh[j][2]
        nidx == _idx(ngx, ngy)
    IN IF ~InGrid(ngx, ngy) THEN {L}
       ELSE IF L.f.state[nidx] # UNBURNED THEN {L}
       ELSE IF ~CanIgnite(dt) THEN {L}
       ELSE {L,
             [L EXCEPT !.f.state[nidx] = BURNING,
                       !.f.burn_t[nidx] = 0,
                       !.f.t_ignited[nidx] = L.f.sim_t,
                       !.next_active[nidx] = IF nidx \in L.seen_next THEN @ ELSE @ + 1,
                       !.seen_next = L.seen_next \cup {nidx},
                       !.lit_tags = L.lit_tags \cup {L.f.tag[idx]}]}

RECURSIVE NbrLoop(_, _, _, _)
NbrLoop(S, idx, j, dt) ==
    IF j > Len(neigh) THEN S
    ELSE NbrLoop(UNION {NbrOutcomes(L, idx, j, dt) : L \in S}, idx, j + 1, dt)

\* Fire._ember_spot from cell idx: no spot, or a spot dist_cells downwind
_ember_spot(L, idx) ==
    {L} \cup
    {LET tx == GxOf(idx) + d * SpotDx
         ty == GyOf(idx) + d * SpotDy
         g == IF SpotDx = 0 /\ SpotDy = 0 THEN L.f ELSE _ignite_cell(L.f, tx, ty)
     IN [L EXCEPT !.f = g,
                  !.queue = IF g.active # L.f.active THEN Append(L.queue, _idx(tx, ty))
                            ELSE L.queue,
                  !.spot_tags = L.spot_tags \cup {L.f.tag[idx]}]
     : d \in 1..Max2(1, spot_max_cells)}

\* the loop body without "if tagged: continue": a suppressed cell spreads
ProcCell_no_gate(L, dt, live_tag_ids) ==
    LET idx == L.queue[L.k]
        tagged == L.f.tag[idx] \in live_tag_ids
        boost == IF tagged THEN 1 + quench ELSE 1
        bt == L.f.burn_t[idx] + dt * boost
        done(M) == [M EXCEPT !.k = L.k + 1]
    IN IF L.f.state[idx] # BURNING THEN {done(L)}
       ELSE IF bt >= L.f.burn_duration
            THEN {done([L EXCEPT !.f.burn_t[idx] = bt,
                                 !.f.state[idx] = BURNED,
                                 !.f.ever_burned[idx] = TRUE])}
            ELSE LET L1 == [L EXCEPT !.f.burn_t[idx] = bt,
                                     !.next_active[idx] = @ + 1]
                 IN {done(M) : M \in UNION {_ember_spot(K, idx) :
                                                 K \in NbrLoop({L1}, idx, 1, dt)}}

\* the loop body without the accelerated burnout of a suppressed cell
ProcCell_no_boost(L, dt, live_tag_ids) ==
    LET idx == L.queue[L.k]
        tagged == L.f.tag[idx] \in live_tag_ids
        bt == L.f.burn_t[idx] + dt
        done(M) == [M EXCEPT !.k = L.k + 1]
    IN IF L.f.state[idx] # BURNING THEN {done(L)}
       ELSE IF bt >= L.f.burn_duration
            THEN {done([L EXCEPT !.f.burn_t[idx] = bt,
                                 !.f.state[idx] = BURNED,
                                 !.f.ever_burned[idx] = TRUE])}
            ELSE LET L1 == [L EXCEPT !.f.burn_t[idx] = bt,
                                     !.next_active[idx] = @ + 1]
                 IN IF tagged THEN {done(L1)}
                    ELSE {done(M) : M \in UNION {_ember_spot(K, idx) :
                                                    K \in NbrLoop({L1}, idx, 1, dt)}}

\* the body of "for idx in self.active" for the cell at position L.k
ProcCell(L, dt, live_tag_ids) ==
    LET idx == L.queue[L.k]
        tagged == L.f.tag[idx] \in live_tag_ids
        boost == IF tagged THEN 1 + quench ELSE 1
        bt == L.f.burn_t[idx] + dt * boost
        done(M) == [M EXCEPT !.k = L.k + 1]
    IN IF L.f.state[idx] # BURNING THEN {done(L)}
       ELSE IF bt >= L.f.burn_duration
            THEN {done([L EXCEPT !.f.burn_t[idx] = bt,
                                 !.f.state[idx] = BURNED,
                                 !.f.ever_burned[idx] = TRUE])}
            ELSE LET L1 == [L EXCEPT !.f.burn_t[idx] = bt,
                                     !.next_active[idx] = @ + 1]
                 IN IF tagged THEN {done(L1)}
                    ELSE {done(M) : M \in UNION {_ember_spot(K, idx) :
                                                    K \in NbrLoop({L1}, idx, 1, dt)}}

RECURSIVE FrontierLoop(_, _, _)
FrontierLoop(S, dt, live_tag_ids) ==
    IF \A L \in S : L.k > Len(L.queue) THEN S
    ELSE FrontierLoop(UNION {IF L.k > Len(L.queue) THEN {L}
                             ELSE ProcCell(L, dt, live_tag_ids) : L \in S},
                      dt, live_tag_ids)

\* the tags under live suppression
LiveTagIds(f) ==
    {f.incidents[k].id : k \in {j \in 1..Len(f.incidents) : f.incidents[j].zone_live}}

\* the loop record at the head of the frontier loop
FrontierStart(f) ==
    [f |-> f, queue |-> ActiveSeq(f.active, 0), k |-> 1,
     next_active |-> NoActive, seen_next |-> {},
     lit_tags |-> {}, spot_tags |-> {}]

\* "if not self.active and not self._episode_has_incident"
EpisodeEnd(g) ==
    IF InActive(g) = {} /\ ~g.episode_has_incident
    THEN [g EXCEPT !.undetected_count = g.undetected_count + 1,
                   !.episode_has_incident = FALSE]
    ELSE g

\* the frontier swap, the recovery and the episode end
FrontierFinish(L, dt) ==
    [L EXCEPT !.f = EpisodeEnd(_recover_burned([L.f EXCEPT !.active = L.next_active], dt))]

\* Fire.update from the point after _update_incidents
SpreadFrom(f, dt) ==
    IF InActive(f) = {}
    THEN {[FrontierStart(f) EXCEPT !.f = _recover_burned(f, dt)]}
    ELSE {FrontierFinish(L, dt) : L \in FrontierLoop({FrontierStart(f)}, dt, LiveTagIds(f))}

\* the head of Fire.update: the episode flag, the clock and the incidents
AdvanceIncidents(f0, dt) ==
    _update_incidents(
        [f0 EXCEPT !.episode_has_incident = IF InActive(f0) = {} THEN FALSE ELSE @,
                   !.sim_t = @ + dt], dt, 1)

\* Fire.update: the set of loop records it may end in (f is the fire after it)
update(f0, dt) == SpreadFrom(AdvanceIncidents(f0, dt), dt)

\* ------------------------------------------------------------- rationals
RECURSIVE GCD(_, _)
GCD(a, b) == IF b = 0 THEN a ELSE GCD(b, a % b)
RNorm(n, d) == IF n = 0 THEN <<0, 1>> ELSE LET g == GCD(n, d) IN <<n \div g, d \div g>>
RAdd(a, b) == RNorm(a[1] * b[2] + b[1] * a[2], a[2] * b[2])
RMul(a, b) == RNorm(a[1] * b[1], a[2] * b[2])
RDiv(a, b) == RNorm(a[1] * b[2], a[2] * b[1])
RSub1(a) == RNorm(a[2] - a[1], a[2])
RPos(a) == a[1] > 0
RInt(k) == <<k, 1>>

\* ----------------------------------------------------------- sensor fleet
\* The fleet of the code has four sensors (range(4)); the model flies the
\* first NumDrones of them, each in its own sector.
NumDrones == 2
Drones == 0..(NumDrones - 1)

\* pygame.Rect as [left, top, width, height]
Rect(l, t, w, h) == [left |-> l, top |-> t, width |-> w, height |-> h]
RRight(r) == r.left + r.width
RBottom(r) == r.top + r.height
CenterXOf(r) == r.left + r.width \div 2
CenterYOf(r) == r.top + r.height \div 2
collidepoint(r, x, y) ==
    /\ r.left <= x /\ x < RRight(r)
    /\ r.top <= y /\ y < RBottom(r)

\* Drone.sectors
sectors(i) ==
    LET w2 == screen_width \div 2
        h2 == screen_height \div 2
    IN Rect((i % 2) * w2, (i \div 2) * h2, w2, h2)

_sector_safe_rect(rect, margin) ==
    LET l0 == rect.left + margin
        r0 == RRight(rect) - margin
        t0 == rect.top + margin
        b0 == RBottom(rect) - margin
        l == Min2(l0, r0)
        r == Max2(l0, r0)
        t == Min2(t0, b0)
        b == Max2(t0, b0)
    IN Rect(l, t, r - l, b - t)

safe_rects(i) == _sector_safe_rect(sectors(i), fov_radius)

base_center == <<screen_width \div 2, screen_height \div 2>>

\* the spawn ring of Drone.__init__, angles 135, 45, 225, 315 degrees, the
\* ring radius times cos 45 being one pixel
SpawnOff == << <<-1, 1>>, <<1, 1>>, <<-1, -1>>, <<1, -1>> >>
SpawnPos(i) == <<base_center[1] + SpawnOff[i + 1][1], base_center[2] + SpawnOff[i + 1][2]>>

Dist2(p, q) == Sq(p[1] - q[1]) + Sq(p[2] - q[2])

\* floor(a * step / sqrt(d2)) for a >= 0
ScaleDown(a, step, d2) ==
    CHOOSE q \in 0..step :
        /\ q * q * d2 <= a * a * step * step
        /\ (q + 1) * (q + 1) * d2 > a * a * step * step

Sign(a) == IF a < 0 THEN -1 ELSE 1
Abs(a) == IF a < 0 THEN -a ELSE a

\* move_towards; p + diff.normalize() * max_step is truncated to whole pixels
move_towards(p, target, max_step) ==
    LET d2 == Dist2(p, target)
    IN IF d2 <= max_step * max_step THEN target
       ELSE << p[1] + Sign(target[1] - p[1]) * ScaleDown(Abs(target[1] - p[1]), max_step, d2),
               p[2] + Sign(target[2] - p[2]) * ScaleDown(Abs(target[2] - p[2]), max_step, d2) >>

_screen_clamp(pos, margin, w, h) ==
    << Max2(margin, Min2(pos[1], w - margin)), Max2(margin, Min2(pos[2], h - margin)) >>

\* the clamp of SEARCH inside the sensor's sector
SectorClamp(pos, i) ==
    LET r == sectors(i)
        m == fov_radius
    IN << Max2(r.left + m, Min2(pos[1], RRight(r) - m)),
          Max2(r.top + m, Min2(pos[2], RBottom(r) - m)) >>

\* ---------------------------------------------------------------- belief
grid_dims(i) ==
    LET safe == safe_rects(i)
        ceil(a, b) == (a + b - 1) \div b
    IN << Max2(1, ceil(safe.width, mc_cell_px)), Max2(1, ceil(safe.height, mc_cell_px)) >>

grid_origin(i) == << safe_rects(i).left, safe_rects(i).top >>

BeliefCells(i) == (0..(grid_dims(i)[2] - 1)) \X (0..(grid_dims(i)[1] - 1))

UniformBelief(i) ==
    [c \in BeliefCells(i) |-> <<1, grid_dims(i)[1] * grid_dims(i)[2]>>]

RECURSIVE RSum(_, _)
RSum(g, S) ==
    IF S = {} THEN <<0, 1>>
    ELSE LET c == CHOOSE x \in S : TRUE IN RAdd(g[c], RSum(g, S \ {c}))

\* twice the centre of belief cell <<jy, ix>> (mc_cell_px may be odd)
BCx2(i, c) == 2 * grid_origin(i)[1] + (2 * c[2] + 1) * mc_cell_px
BCy2(i, c) == 2 * grid_origin(i)[2] + (2 * c[1] + 1) * mc_cell_px

InBeliefDisc(i, c, cx, cy, radius) ==
    Sq(BCx2(i, c) - 2 * cx) + Sq(BCy2(i, c) - 2 * cy) <= 4 * radius * radius

\* the diffusion pass of Drone._observation_update
BeliefNbrs(i, c) ==
    {c} \cup {n \in BeliefCells(i) :
                \/ n[1] = c[1] /\ n[2] - c[2] \in {-1, 1}
                \/ n[2] = c[2] /\ n[1] - c[1] \in {-1, 1}}

\* the mean of a set of belief cells
RMean(grid, S) == RDiv(RSum(grid, S), RInt(Cardinality(S)))

\* the grid left as it is, not divided by its sum
Renormalise_unscaled(i, grid) == grid

\* "b /= s": the grid divided by its sum
Renormalise(i, grid) ==
    LET total == RSum(grid, BeliefCells(i))
    IN [c \in BeliefCells(i) |-> RDiv(grid[c], total)]

Diffuse(i, grid, d) ==
    Renormalise(i, [c \in BeliefCells(i) |->
                        RAdd(RMul(RSub1(d), grid[c]),
                             RMul(d, RMean(grid, BeliefNbrs(i, c))))])

\* Drone._observation_update on the grid of sector i
\* the belief after the cells under the footprint were discounted: uniform
\* again when nothing is left, renormalised otherwise
\* ("ssum <= 1e-12": the masses are exact fractions with denominators below
\* 10^12, so the sum is that small only when it is 0)
BeliefOrUniform(i, seen) ==
    IF ~RPos(RSum(seen, BeliefCells(i))) THEN UniformBelief(i)
    ELSE Renormalise(i, seen)

DiffuseIf(i, normed, d) == IF RPos(d) THEN Diffuse(i, normed, d) ELSE normed

\* the cells under the footprint discounted by half the strength
Discount_half(i, grid, cx, cy, radius, detect) ==
    [c \in BeliefCells(i) |->
        IF InBeliefDisc(i, c, cx, cy, radius)
        THEN RMul(grid[c], RSub1(RMul(detect, <<1, 2>>))) ELSE grid[c]]

\* "row[ix] *= (1.0 - detect)" for the cells under the footprint
Discount(i, grid, cx, cy, radius, detect) ==
    [c \in BeliefCells(i) |->
        IF InBeliefDisc(i, c, cx, cy, radius)
        THEN RMul(grid[c], RSub1(detect)) ELSE grid[c]]

_observation_update(i, grid, cx, cy, radius, detect, d) ==
    DiffuseIf(i, BeliefOrUniform(i, Discount(i, grid, cx, cy, radius, detect)), d)

\* --------------------------------------------------- sensor state machine
\* The fleet works on a record W: d the Drone object, f the Fire object it
\* calls into, and ev, per sensor, what its detection step did in this tick:
\* det is "none", "new" or "merged", id the incident id register returned,
\* regs the number of register calls, held whether the sensor was in HOLD
\* holding that id when the detection step returned, rtb whether
\* _should_return_now held when the tick evaluated it after the detection step.
\* at is the position at which the sensor confirmed the detection of the
\* incident it holds, kept from tick to tick while it holds one; seen is
\* whether the sensor has called register in the burning episode under way.
\* step is the dt of the detection step the sensor executed in this tick, 0
\* if it executed none; since is the sum of these from the sensor's last
\* confirmed detection on, counted up to det_cooldown_s + det_confirm_time;
\* nth is the number of detections the sensor has confirmed, counted up to 2.
NoPlace == <<NONE, NONE>>
NoEvent == [det |-> "none", id |-> NONE, regs |-> 0, held |-> FALSE, rtb |-> FALSE,
            at |-> NoPlace, seen |-> FALSE, step |-> 0, since |-> 0,
            nth |-> 0]

\* _should_return_now with the energy fraction test alone
_should_return_now_fraction_only(d, i) ==
    IF d.phase[i] \in {RETURN, RECHARGE} THEN FALSE
    ELSE d.work_period[i] > 0
         /\ d.work_remaining[i] * return_threshold[2] <= return_threshold[1] * d.work_period[i]

\* Drone._should_return_now
_should_return_now(d, i) ==
    IF d.phase[i] \in {RETURN, RECHARGE} THEN FALSE
    ELSE IF d.work_period[i] > 0
            /\ d.work_remaining[i] * return_threshold[2] <= return_threshold[1] * d.work_period[i]
         THEN TRUE
         ELSE LET a == (d.work_remaining[i] - reserve_seconds) * d.speed
              IN a <= 0 \/ a * a <= Dist2(d.positions[i], base_center)

SamplePts(i) ==
    {<<x, y>> : x \in {v \in SampleXs : safe_rects(i).left <= v /\ v <= RRight(safe_rects(i))},
                y \in {v \in SampleYs : safe_rects(i).top <= v /\ v <= RBottom(safe_rects(i))}}

\* Drone._replan_target: the Drone objects it may leave
_replan_target(d, i) ==
    LET safe == safe_rects(i)
    IN IF safe.width <= 1 \/ safe.height <= 1
       THEN {[d EXCEPT !.mc_target[i] = <<CenterXOf(safe), CenterYOf(safe)>>,
                       !.replan_timer[i] = replan_T]}
       ELSE {[d EXCEPT !.mc_target[i] = pt, !.replan_timer[i] = replan_T] :
                pt \in SamplePts(i)}

\* the mean of the hotspot centres
Centroid(S) ==
    LET RECURSIVE SumX(_)
        SumX(T) == IF T = {} THEN 0
                   ELSE LET c == CHOOSE x \in T : TRUE IN CenterX(c) + SumX(T \ {c})
        RECURSIVE SumY(_)
        SumY(T) == IF T = {} THEN 0
                   ELSE LET c == CHOOSE x \in T : TRUE IN CenterY(c) + SumY(T \ {c})
    IN << SumX(S) \div Cardinality(S), SumY(S) \div Cardinality(S) >>

\* the confirmed branch leaving the cooldown as it is
ConfirmDetection_no_cooldown(W, i, r) ==
    LET d1 == [W.d EXCEPT !.det_hold[i] = 0]
        d2 == IF r[3]
              THEN [d1 EXCEPT !.phase[i] = HOLD,
                              !.holding_incident[i] = r[2]]
              ELSE d1
    IN [W EXCEPT !.d = d2,
                 !.f = r[1],
                 !.ev[i] = [det |-> IF r[3] THEN "new" ELSE "merged",
                            id |-> r[2],
                            regs |-> W.ev[i].regs + 1,
                            held |-> d2.phase[i] = HOLD
                                     /\ d2.holding_incident[i] = r[2],
                            rtb |-> FALSE,
                            at |-> IF r[3] THEN W.d.positions[i] ELSE NoPlace,
                            seen |-> TRUE,
                            step |-> W.ev[i].step,
                            since |-> W.ev[i].since,
                            nth |-> W.ev[i].nth]]

\* the confirmed branch entering HOLD on a merged registration too
ConfirmDetection_hold_merged(W, i, r) ==
    LET d2 == [W.d EXCEPT !.det_hold[i] = 0,
                          !.det_cooldowns[i] = det_cooldown_s,
                          !.phase[i] = HOLD,
                          !.holding_incident[i] = r[2]]
    IN [W EXCEPT !.d = d2,
                 !.f = r[1],
                 !.ev[i] = [det |-> IF r[3] THEN "new" ELSE "merged",
                            id |-> r[2],
                            regs |-> W.ev[i].regs + 1,
                            held |-> d2.phase[i] = HOLD
                                     /\ d2.holding_incident[i] = r[2],
                            rtb |-> FALSE,
                            at |-> W.d.positions[i],
                            seen |-> TRUE,
                            step |-> W.ev[i].step,
                            since |-> W.ev[i].since,
                            nth |-> W.ev[i].nth]]

\* the confirmed branch of _maybe_detect_and_report, r being what
\* register_incident returned: <<Fire object, inc_id, is_new>>
ConfirmDetection(W, i, r) ==
    LET d1 == [W.d EXCEPT !.det_hold[i] = 0,
                          !.det_cooldowns[i] = det_cooldown_s]
        d2 == IF r[3]
              THEN [d1 EXCEPT !.phase[i] = HOLD,
                              !.holding_incident[i] = r[2]]
              ELSE d1
    IN [W EXCEPT !.d = d2,
                 !.f = r[1],
                 !.ev[i] = [det |-> IF r[3] THEN "new" ELSE "merged",
                            id |-> r[2],
                            regs |-> W.ev[i].regs + 1,
                            held |-> d2.phase[i] = HOLD
                                     /\ d2.holding_incident[i] = r[2],
                            rtb |-> FALSE,
                            at |-> IF r[3] THEN W.d.positions[i] ELSE NoPlace,
                            seen |-> TRUE,
                            step |-> W.ev[i].step,
                            since |-> W.ev[i].since,
                            nth |-> W.ev[i].nth]]

\* the dwell accumulator kept, not reset, over a frame without fire
DwellAfter_keep(W, i, dt, inside, hotspots) ==
    IF /\ inside # {}
       /\ Cardinality(hotspots) * det_min_frac[2] >= det_min_frac[1] * Cardinality(inside)
    THEN W.d.det_hold[i] + dt
    ELSE W.d.det_hold[i]

\* the dwell accumulator after a frame in which the fire was seen or not
DwellAfter(W, i, dt, inside, hotspots) ==
    IF /\ inside # {}
       /\ Cardinality(hotspots) * det_min_frac[2] >= det_min_frac[1] * Cardinality(inside)
    THEN W.d.det_hold[i] + dt
    ELSE 0

\* the position reported: the centroid of the hotspots, else the sensor's own
ReportPoint(hotspots, pos) == IF hotspots # {} THEN Centroid(hotspots) ELSE pos

RegisterAt(f, c) == register_incident(f, c[1], c[2])

\* Drone._maybe_detect_and_report
_maybe_detect_and_report(W, i, dt) ==
    IF W.d.phase[i] = HOLD THEN W
    ELSE IF W.d.det_cooldowns[i] > 0
         THEN [W EXCEPT !.d.det_cooldowns[i] = Max2(0, @ - dt),
                        !.ev[i].step = dt]
         ELSE LET pos == W.d.positions[i]
                  hold == DwellAfter(W, i, dt, DiscCells(pos[1], pos[2], fov_radius),
                                     BurningInDisc(W.f, pos[1], pos[2], fov_radius))
              IN IF hold < W.d.det_confirm_time
                 THEN [W EXCEPT !.d.det_hold[i] = hold, !.ev[i].step = dt]
                 ELSE ConfirmDetection([W EXCEPT !.ev[i].step = dt], i,
                        RegisterAt(W.f, ReportPoint(BurningInDisc(W.f, pos[1], pos[2],
                                                                  fov_radius), pos)))

\* "if self._should_return_now(i)" at the end of a branch of Drone.move
ReturnCheck(W, i, clear_target) ==
    IF _should_return_now(W.d, i)
    THEN [W EXCEPT !.d.phase[i] = RETURN,
                   !.d.mc_target[i] = IF clear_target THEN NoTarget ELSE @,
                   !.ev[i].rtb = W.ev[i].det # "none"]
    ELSE W

Drain(W, i, dt) == [W EXCEPT !.d.work_remaining[i] = Max2(0, @ - dt)]

\* "info = self.fire.get_incident(inc_id)" and the announcement made once
AnnounceSuppression(f, inc_id) ==
    LET k == IncPos(f, inc_id)
    IN IF k # 0 /\ f.incidents[k].zone_live /\ ~f.incidents[k].announced_suppression
       THEN mark_incident_announced(f, inc_id, "suppression")
       ELSE f

AnnounceExtinguished(f, inc_id) ==
    LET k == IncPos(f, inc_id)
    IN IF k # 0 /\ f.incidents[k].extinguished_t # NONE
          /\ ~f.incidents[k].announced_extinguished
       THEN mark_incident_announced(f, inc_id, "extinguished")
       ELSE f

\* "Clear hold and resume search"
ReleaseHold(W, i, f) ==
    [W EXCEPT !.f = AnnounceExtinguished(f, W.d.holding_incident[i]),
              !.d.holding_incident[i] = NONE,
              !.d.phase[i] = SEARCH,
              !.d.replan_timer[i] = 0]

\* the HOLD branch without its low-energy return check
HoldOn_no_return_check(W, i, dt, r) ==
    IF r[2]
    THEN Drain([W EXCEPT !.f = AnnounceSuppression(r[1], W.d.holding_incident[i])], i, dt)
    ELSE ReleaseHold(W, i, r[1])

\* the HOLD branch flying to the incident's centre while it holds
HoldOn_to_incident(W, i, dt, r) ==
    IF r[2]
    THEN ReturnCheck(
            Drain([W EXCEPT !.f = AnnounceSuppression(r[1], W.d.holding_incident[i]),
                            !.d.positions[i] =
                                LET k == IncPos(r[1], W.d.holding_incident[i])
                                IN move_towards(@, << r[1].incidents[k].cx,
                                                      r[1].incidents[k].cy >>, W.d.speed * dt)],
                  i, dt),
            i, FALSE)
    ELSE ReleaseHold(W, i, r[1])

\* the HOLD branch, r being what incident_is_active returned:
\* <<Fire object, active>>
HoldOn(W, i, dt, r) ==
    IF r[2]
    THEN ReturnCheck(
            Drain([W EXCEPT !.f = AnnounceSuppression(r[1], W.d.holding_incident[i])], i, dt),
            i, FALSE)
    ELSE ReleaseHold(W, i, r[1])

\* the HOLD branch of Drone.move
HoldStep(W, i, dt) == HoldOn(W, i, dt, incident_is_active(W.f, W.d.holding_incident[i]))

\* the work periods random.random() may give on leaving RECHARGE
WorkPeriods == {Max2(2, work_T - WorkJitter), Max2(2, work_T + WorkJitter)}

\* the RECHARGE branch
RechargeStep(W, i, dt) ==
    LET W1 == [W EXCEPT !.d.positions[i] = base_center,
                        !.d.recharge_timer[i] = @ - dt]
    IN IF W1.d.recharge_timer[i] <= 0
       THEN {[W1 EXCEPT !.d.work_period[i] = wp,
                        !.d.work_remaining[i] = wp,
                        !.d.mc_target[i] = NoTarget,
                        !.d.phase[i] = APPROACH] : wp \in WorkPeriods}
       ELSE {W1}

\* the docking without the test of the distance to the base
Dock_anywhere(W, i) ==
    [W EXCEPT !.d.phase[i] = RECHARGE, !.d.recharge_timer[i] = charge_T]

\* the RETURN branch
Dock(W, i) ==
    IF Dist2(W.d.positions[i], base_center) <= Sq(Max2(1, W.d.base_radius - drone_radius))
    THEN [W EXCEPT !.d.phase[i] = RECHARGE, !.d.recharge_timer[i] = charge_T]
    ELSE W

ReturnStep(W, i, dt) ==
    Dock(_maybe_detect_and_report(
            Drain([W EXCEPT !.d.positions[i] =
                      _screen_clamp(move_towards(@, base_center, W.d.speed * dt),
                                    fov_radius, screen_width, screen_height)], i, dt),
            i, dt), i)

Observe(W, i) ==
    [W EXCEPT !.d.belief[i] =
        _observation_update(i, @, W.d.positions[i][1], W.d.positions[i][2],
                            fov_radius, detect_strength, diffusion)]

\* the APPROACH branch
\* "if s_safe.collidepoint(pos.x, pos.y)": the sensor has reached its sector
EnterSector(W, i) ==
    IF collidepoint(safe_rects(i), W.d.positions[i][1], W.d.positions[i][2])
    THEN [W EXCEPT !.d.phase[i] = SEARCH, !.d.replan_timer[i] = replan_T]
    ELSE W

ApproachStep(W, i, dt) ==
    ReturnCheck(
        Drain(EnterSector(
                _maybe_detect_and_report(
                    Observe([W EXCEPT !.d.positions[i] =
                                _screen_clamp(move_towards(@, W.d.mc_target[i], W.d.speed * dt),
                                              fov_radius, screen_width, screen_height)], i),
                    i, dt), i), i, dt),
        i, TRUE)

\* the SEARCH branch: the Drone objects differ by the target replanned
\* the replan timer runs down; a new target is drawn on arrival or at zero.
\* target is the target the sensor flew to in this tick.
ReplanIfDue(W, i, dt, target) ==
    IF \/ Dist2(W.d.positions[i], target) <= Sq(Max2(2, drone_radius))
       \/ W.d.replan_timer[i] - dt <= 0
    THEN {[W EXCEPT !.d = e] :
            e \in _replan_target([W.d EXCEPT !.replan_timer[i] = @ - dt], i)}
    ELSE {[W EXCEPT !.d.replan_timer[i] = @ - dt]}

SearchStep(W, i, dt) ==
    {ReturnCheck(Drain(X, i, dt), i, TRUE) :
        X \in ReplanIfDue(
                _maybe_detect_and_report(
                    Observe([W EXCEPT !.d.positions[i] =
                                SectorClamp(move_towards(@, W.d.mc_target[i], W.d.speed * dt), i)],
                            i),
                    i, dt),
                i, dt, W.d.mc_target[i])}

\* the body of "for i in range(4)" of Drone.move for sensor i
\* the result <<Fire object, active>> of incident_is_active applied to W
WithActive(W, i, r) ==
    [W EXCEPT !.f = r[1], !.d.phase[i] = IF r[2] THEN HOLD ELSE @]

\* "if we have a holding incident and it is still active, keep HOLD"
KeepHold(W, i) ==
    IF W.d.holding_incident[i] # NONE /\ W.d.phase[i] \notin {HOLD, RETURN, RECHARGE}
    THEN WithActive(W, i, incident_is_active(W.f, W.d.holding_incident[i]))
    ELSE W

\* "if self.mc_target[i] is None: self._replan_target(i)"
EnsureTarget(W, i) ==
    IF W.d.mc_target[i] = NoTarget
    THEN {[W EXCEPT !.d = e] : e \in _replan_target(W.d, i)}
    ELSE {W}

\* the branch of the loop body the phase selects
PhaseStep(W, i, dt) ==
    IF W.d.phase[i] = HOLD THEN {HoldStep(W, i, dt)}
    ELSE IF W.d.phase[i] = RECHARGE THEN RechargeStep(W, i, dt)
    ELSE UNION {IF X.d.phase[i] = RETURN THEN {ReturnStep(X, i, dt)}
                ELSE IF X.d.phase[i] = APPROACH THEN {ApproachStep(X, i, dt)}
                ELSE IF X.d.phase[i] = SEARCH THEN SearchStep(X, i, dt)
                ELSE {X} : X \in EnsureTarget(W, i)}

MoveOne(W0, i, dt) == PhaseStep(KeepHold(W0, i), i, dt)

RECURSIVE MoveLoop(_, _, _)
MoveLoop(S, i, dt) ==
    IF i >= NumDrones THEN S
    ELSE MoveLoop(UNION {MoveOne(W, i, dt) : W \in S}, i + 1, dt)

\* Drone.move: the records it may end in
move(d, f, dt) ==
    LET W0 == [d |-> d, f |-> f, ev |-> [i \in Drones |-> NoEvent]]
        remain == start_delay - d.elapsed
    IN IF d.elapsed < start_delay /\ dt <= remain
       THEN {[W0 EXCEPT !.d.elapsed = d.elapsed + dt]}
       ELSE MoveLoop({[W0 EXCEPT !.d.elapsed = Max2(@, start_delay)]}, 0,
                     IF d.elapsed < start_delay THEN dt - remain ELSE dt)

\* ------------------------------------------------------------ the program
\* sim_fire and drones are the objects of main.py; pc is the place of the
\* main loop, dt its frame step; lit_tags, spot_tags and ev record what the
\* last update and the last move did; random_ignition_events counts the
\* background ignitions drawn.
VARIABLES sim_fire, drones, pc, dt, lit_tags, spot_tags, ev, random_ignition_events

vars == <<sim_fire, drones, pc, dt, lit_tags, spot_tags, ev, random_ignition_events>>

\* the cells _init_terrain made BARRIER
BarrierLayouts == {{2, 3, 4, 5}}

\* Fire.__init__
FireInit(barriers) ==
    [state |-> [i \in Cells |-> IF i \in barriers THEN BARRIER ELSE UNBURNED],
     burn_t |-> [i \in Cells |-> 0],
     sim_t |-> 0,
     t_ignited |-> [i \in Cells |-> INF],
     tag |-> [i \in Cells |-> 0],
     regen_t |-> [i \in Cells |-> 0],
     regen_accum |-> 0,
     active |-> NoActive,
     incidents |-> << >>,
     next_incident_id |-> 1,
     merge_r2 |-> merge_r * merge_r,
     monitor_r |-> monitor_r,
     delay_s |-> delay_s,
     burn_duration |-> burn_duration,
     det_times |-> << >>,
     detect_areas |-> << >>,
     final_areas |-> << >>,
     dispatch_count |-> 0,
     extinguished_count |-> 0,
     user_ignitions |-> 0,
     ever_burned |-> [i \in Cells |-> FALSE],
     undetected_count |-> 0,
     episode_has_incident |-> FALSE]

\* Drone.__init__
DroneInit(wp) ==
    [speed |-> speed,
     base_radius |-> base_radius,
     det_confirm_time |-> det_confirm_time,
     positions |-> [i \in Drones |-> SpawnPos(i)],
     phase |-> [i \in Drones |-> APPROACH],
     mc_target |-> [i \in Drones |-> NoTarget],
     replan_timer |-> [i \in Drones |-> 0],
     elapsed |-> 0,
     work_period |-> wp,
     work_remaining |-> wp,
     recharge_timer |-> [i \in Drones |-> 0],
     belief |-> [i \in Drones |-> UniformBelief(i)],
     det_hold |-> [i \in Drones |-> 0],
     det_cooldowns |-> [i \in Drones |-> 0],
     holding_incident |-> [i \in Drones |-> NONE]]

Init ==
    /\ \E b \in BarrierLayouts : sim_fire = FireInit(b)
    /\ \E wp \in [Drones -> WorkPeriods] : drones = DroneInit(wp)
    /\ pc = "events"
    /\ dt = 0
    /\ lit_tags = {}
    /\ spot_tags = {}
    /\ ev = [i \in Drones |-> NoEvent]
    /\ random_ignition_events = 0

\* main.py: a left click
IgniteWorld ==
    /\ pc = "events"
    /\ sim_fire.user_ignitions < MaxUserIgnitions
    /\ \E i \in Cells : sim_fire' = ignite_world(sim_fire, CenterX(i), CenterY(i))
    /\ UNCHANGED <<drones, pc, dt, lit_tags, spot_tags, ev, random_ignition_events>>

\* main.py: dt = clock.tick(fps) / 1000 and Fire.random_ignitions
RandomIgnitions ==
    /\ pc = "events"
    /\ \E d \in DTs :
        /\ sim_fire.sim_t + d <= MaxTime
        /\ dt' = d
        /\ \/ sim_fire' = sim_fire /\ UNCHANGED random_ignition_events
           \/ /\ d > 0
              /\ random_ignition_events < MaxRandomIgnitions
              /\ random_ignition_events' = random_ignition_events + 1
              /\ \E i \in Cells : sim_fire' = _ignite_cell(sim_fire, GxOf(i), GyOf(i))
    /\ pc' = "update"
    /\ UNCHANGED <<drones, lit_tags, spot_tags, ev>>

\* main.py: sim_fire.update(dt)
Update ==
    /\ pc = "update"
    /\ \E L \in update(sim_fire, dt) :
        /\ sim_fire' = L.f
        /\ lit_tags' = L.lit_tags
        /\ spot_tags' = L.spot_tags
        /\ ev' = [i \in Drones |->
                    [ev[i] EXCEPT !.seen = IF InActive(L.f) = {} THEN FALSE ELSE @]]
    /\ pc' = "move"
    /\ UNCHANGED <<drones, dt, random_ignition_events>>

\* main.py: drones.move(dt)
Move ==
    /\ pc = "move"
    /\ \E W \in move(drones, sim_fire, dt) :
        /\ drones' = W.d
        /\ sim_fire' = W.f
        /\ ev' = [i \in Drones |->
                    [W.ev[i] EXCEPT
                        !.at = IF @ # NoPlace THEN @
                               ELSE IF W.d.holding_incident[i] = NONE THEN NoPlace
                               ELSE ev[i].at,
                        !.seen = @ \/ ev[i].seen,
                        !.since = IF W.ev[i].det # "none" THEN 0
                                  ELSE IF ev[i].nth = 0 THEN 0
                                  ELSE IF ev[i].since + W.ev[i].step
                                             >= det_cooldown_s + det_confirm_time
                                       THEN det_cooldown_s + det_confirm_time
                                       ELSE ev[i].since + W.ev[i].step,
                        !.nth = Min2(2, ev[i].nth
                                        + IF W.ev[i].det # "none" THEN 1 ELSE 0)]]
    /\ pc' = "events"
    /\ UNCHANGED <<dt, lit_tags, spot_tags, random_ignition_events>>

\* main.py: the window is closed or Escape is pressed; the loop ends and
\* drones.build_summary(sim_fire) reads the metrics of the Fire object. It
\* assigns to no field of either object.
Quit ==
    /\ pc = "events"
    /\ pc' = "summary"
    /\ UNCHANGED <<sim_fire, drones, dt, lit_tags, spot_tags, ev, random_ignition_events>>

Next == IgniteWorld \/ RandomIgnitions \/ Update \/ Move \/ Quit

Spec == Init /\ [][Next]_vars

\* the program configured with incident_merge_radius_px = 0
InitNoMerge ==
    /\ \E b \in BarrierLayouts : sim_fire = [FireInit(b) EXCEPT !.merge_r2 = 0]
    /\ \E wp \in [Drones -> WorkPeriods] : drones = DroneInit(wp)
    /\ pc = "events"
    /\ dt = 0
    /\ lit_tags = {}
    /\ spot_tags = {}
    /\ ev = [i \in Drones |-> NoEvent]
    /\ random_ignition_events = 0

SpecNoMerge == InitNoMerge /\ [][Next]_vars

\* the program configured with a stop_after_detect_delay of two frames
InitLongDelay ==
    /\ \E b \in BarrierLayouts : sim_fire = [FireInit(b) EXCEPT !.delay_s = 2 * delay_s]
    /\ \E wp \in [Drones -> WorkPeriods] : drones = DroneInit(wp)
    /\ pc = "events"
    /\ dt = 0
    /\ lit_tags = {}
    /\ spot_tags = {}
    /\ ev = [i \in Drones |-> NoEvent]
    /\ random_ignition_events = 0

SpecLongDelay == InitLongDelay /\ [][Next]_vars

\* the program with a base wider than a frame's flight, as in the settings
\* (speed * dt below base_radius - drone_radius): half the speed, twice the
\* base radius
InitWideBase ==
    /\ \E b \in BarrierLayouts : sim_fire = FireInit(b)
    /\ \E wp \in [Drones -> WorkPeriods] :
          drones = [DroneInit(wp) EXCEPT !.speed = speed \div 2,
                                         !.base_radius = 2 * base_radius]
    /\ pc = "events"
    /\ dt = 0
    /\ lit_tags = {}
    /\ spot_tags = {}
    /\ ev = [i \in Drones |-> NoEvent]
    /\ random_ignition_events = 0

SpecWideBase == InitWideBase /\ [][Next]_vars

\* the program with the wide base and a det_confirm_time of half the
\* default, one frame
InitQuickConfirm ==
    /\ \E b \in BarrierLayouts : sim_fire = FireInit(b)
    /\ \E wp \in [Drones -> WorkPeriods] :
          drones = [DroneInit(wp) EXCEPT !.speed = speed \div 2,
                                         !.base_radius = 2 * base_radius,
                                         !.det_confirm_time = det_confirm_time \div 2]
    /\ pc = "events"
    /\ dt = 0
    /\ lit_tags = {}
    /\ spot_tags = {}
    /\ ev = [i \in Drones |-> NoEvent]
    /\ random_ignition_events = 0

SpecQuickConfirm == InitQuickConfirm /\ [][Next]_vars

\* the program configured with incident_merge_radius_px = 0 and a monitor
\* radius below the distance of two neighbouring cells
InitSmallDisc ==
    /\ \E b \in BarrierLayouts :
          sim_fire = [FireInit(b) EXCEPT !.merge_r2 = 0, !.monitor_r = monitor_r - 1]
    /\ \E wp \in [Drones -> WorkPeriods] : drones = DroneInit(wp)
    /\ pc = "events"
    /\ dt = 0
    /\ lit_tags = {}
    /\ spot_tags = {}
    /\ ev = [i \in Drones |-> NoEvent]
    /\ random_ignition_events = 0

SpecSmallDisc == InitSmallDisc /\ [][Next]_vars

\* the program configured with a shorter fire_burn_duration
InitShortBurn ==
    /\ \E b \in BarrierLayouts :
          sim_fire = [FireInit(b) EXCEPT !.burn_duration = burn_duration - 2]
    /\ \E wp \in [Drones -> WorkPeriods] : drones = DroneInit(wp)
    /\ pc = "events"
    /\ dt = 0
    /\ lit_tags = {}
    /\ spot_tags = {}
    /\ ev = [i \in Drones |-> NoEvent]
    /\ random_ignition_events = 0

SpecShortBurn == InitShortBurn /\ [][Next]_vars

\* the frames of a window that stays open end at this time
MaxRunTime == 10

\* the program with the wide base and every work period at work_T, the draw
\* of jittered_work() for random() = 1/2
InitRunning ==
    /\ \E b \in BarrierLayouts : sim_fire = FireInit(b)
    /\ drones = [DroneInit([i \in Drones |-> work_T])
                    EXCEPT !.speed = speed \div 2,
                           !.base_radius = 2 * base_radius]
    /\ pc = "events"
    /\ dt = 0
    /\ lit_tags = {}
    /\ spot_tags = {}
    /\ ev = [i \in Drones |-> NoEvent]
    /\ random_ignition_events = 0

\* main.py: a frame after MaxTime; dt = clock.tick(fps) / 1000 and a
\* Fire.random_ignitions that ignites nothing
LateFrame ==
    /\ pc = "events"
    /\ sim_fire.sim_t >= MaxTime
    /\ \E d \in DTs :
        /\ sim_fire.sim_t + d <= MaxRunTime
        /\ dt' = d
    /\ sim_fire' = sim_fire
    /\ pc' = "update"
    /\ UNCHANGED <<drones, lit_tags, spot_tags, ev, random_ignition_events>>

\* main.py: sim_fire.update(dt) and drones.move(dt) of a frame, by the
\* position of the loop alone: Update is the one action that takes pc from
\* "update" to "move" and is enabled whenever pc = "update", and likewise
\* Move from "move" to "events"
UpdateFrame == pc = "update" /\ pc' = "move"

MoveFrame == pc = "move" /\ pc' = "events"

\* the main loop while the window stays open: "while running" takes one
\* frame after the other, each a fire update followed by a fleet update, so
\* a frame that can start does start and its two updates follow; a click is
\* up to the user
NextRunning == IgniteWorld \/ RandomIgnitions \/ LateFrame \/ Update \/ Move

SpecRunning ==
    /\ InitRunning
    /\ [][NextRunning]_vars
    /\ WF_vars(RandomIgnitions) /\ WF_vars(LateFrame)
    /\ WF_pc(UpdateFrame) /\ WF_pc(MoveFrame)

\* the program with frames of length zero (clock.tick returning 0 ms, for
\* which random_ignitions draws no cell); at most one such frame between two
\* frames that advance the time
ZeroFrame ==
    /\ pc = "events"
    /\ dt # 0
    /\ sim_fire.sim_t <= MaxZeroFrameTime
    /\ sim_fire' = sim_fire
    /\ pc' = "update"
    /\ dt' = 0
    /\ UNCHANGED <<drones, lit_tags, spot_tags, ev, random_ignition_events>>

NextZeroDt == IgniteWorld \/ RandomIgnitions \/ ZeroFrame \/ Update \/ Move \/ Quit

SpecZeroDt == Init /\ [][NextZeroDt]_vars

\* Drone._observation_update alone, applied again and again to the belief
\* grids of the fleet from any position of the screen, for footprints of
\* several radii and for detect_strength and diffusion of 0, 1/2 and 1
ObservePoints == ({0, 2, 3, 4, 6, 8, 9, 10, 12} \X {2}) \cup {<<6, 5>>}
ObserveRadii == {fov_radius, 2 * fov_radius}
DetectStrengths == {<<0, 1>>, <<1, 2>>, <<1, 1>>}
Diffusions == {<<0, 1>>, <<1, 2>>, <<1, 1>>}

\* the masses of the grid are fractions over at most MaxDenominator
BeliefWithinBound(grid, i) == \A c \in BeliefCells(i) : grid[c][2] <= MaxDenominator

ObserveBelief ==
    /\ \E i \in 0..(NumDrones - 1), p \in ObservePoints, radius \in ObserveRadii,
          detect \in DetectStrengths, d \in Diffusions :
            /\ BeliefWithinBound(drones.belief[i], i)
            /\ drones' = [drones EXCEPT !.belief[i] =
                              _observation_update(i, @, p[1], p[2], radius, detect, d)]
    /\ UNCHANGED <<sim_fire, pc, dt, lit_tags, spot_tags, ev, random_ignition_events>>

NextBelief == ObserveBelief

SpecBelief == Init /\ [][NextBelief]_vars

\* ---------------------------------------------------------------- claims
IncidentIds == {sim_fire.incidents[k].id : k \in 1..Len(sim_fire.incidents)}
BurningCells == {i \in Cells : sim_fire.state[i] = BURNING}

\* the incident record with id inc_id
IncidentOf(inc_id) ==
    sim_fire.incidents[CHOOSE k \in 1..Len(sim_fire.incidents) :
                           sim_fire.incidents[k].id = inc_id]

\* a BURNING cell carries the tag inc_id
TaggedBurning(inc_id) == \E c \in BurningCells : sim_fire.tag[c] = inc_id

\* what is_active reports for a registered incident: once the zone is live a
\* BURNING cell with its tag, before that a BURNING cell in its monitor disc
ReportsActive(inc_id) ==
    IF IncidentOf(inc_id).zone_live THEN TaggedBurning(inc_id)
    ELSE \E c \in BurningCells :
            Sq(CenterX(c) - IncidentOf(inc_id).cx) + Sq(CenterY(c) - IncidentOf(inc_id).cy)
               <= monitor_r * monitor_r

\* energy_remaining / energy_period <= return_threshold, or
\* energy_remaining <= distance_to_base / speed + reserve_seconds
LowEnergy(d, i) ==
    \/ d.work_remaining[i] * return_threshold[2] <= return_threshold[1] * d.work_period[i]
    \/ d.work_remaining[i] <= reserve_seconds
    \/ Sq((d.work_remaining[i] - reserve_seconds) * d.speed) <= Dist2(d.positions[i], base_center)

C2_EveryDetectionHolds ==
    \A i \in Drones :
        (pc = "events" /\ ev[i].det # "none")
        => /\ drones.det_hold[i] = 0
           /\ drones.det_cooldowns[i] = det_cooldown_s
           /\ ev[i].regs = 1
           /\ ev[i].held

\* C2: every confirmed detection resets det_hold, sets the cooldown and calls
\* register once; a registration that created an incident leaves the sensor
\* in HOLD with the returned id, a merged one does not put it in HOLD.
C2_NewDetectionHolds ==
    \A i \in Drones :
        (pc = "events" /\ ev[i].det # "none")
        => /\ drones.det_hold[i] = 0
           /\ drones.det_cooldowns[i] = det_cooldown_s
           /\ ev[i].regs = 1
           /\ ev[i].id \in IncidentIds
           /\ ev[i].held <=> ev[i].det = "new"

\* a sensor has confirmed a detection that merged into an existing incident
C2_Witness ==
    \E i \in Drones :
        /\ pc = "events"
        /\ ev[i].det = "merged"
        /\ drones.phase[i] = SEARCH

\* C7: a sensor that begins a tick after the start delay in APPROACH or
\* SEARCH ends it in RETURN if the low-energy condition holds when the tick
\* begins or after the tick's motion and energy drain.
C7_LowEnergyReturn ==
    [][\A i \in Drones :
          (pc = "move" /\ drones.elapsed >= start_delay
              /\ drones.phase[i] \in {APPROACH, SEARCH}
              /\ (LowEnergy(drones, i) \/ LowEnergy(drones', i)))
          => drones'.phase[i] = RETURN]_vars

\* a tick has taken a sensor from APPROACH or SEARCH to RETURN (its target
\* was cleared) on the reserve test, above the fraction threshold
C7_Witness ==
    \E i \in Drones :
        /\ pc = "events"
        /\ drones.phase[i] = RETURN
        /\ drones.mc_target[i] = NoTarget
        /\ ev[i].det = "none"
        /\ LowEnergy(drones, i)
        /\ drones.work_remaining[i] * return_threshold[2]
              > return_threshold[1] * drones.work_period[i]

\* C8: a sensor that in one tick confirms a new detection and satisfies
\* should_return_now ends the tick in HOLD, holding the new incident.
C8_DetectionWins ==
    \A i \in Drones :
        (pc = "events" /\ ev[i].det = "new" /\ ev[i].rtb)
        => /\ drones.phase[i] = HOLD
           /\ drones.holding_incident[i] = ev[i].id

\* C9: a tick that begins with a sensor in HOLD changes neither its position
\* nor its belief grid.
C9_HoldIsStationary ==
    [][\A i \in Drones :
          (pc = "move" /\ drones.phase[i] = HOLD)
          => /\ drones'.positions[i] = drones.positions[i]
             /\ drones'.belief[i] = drones.belief[i]]_vars

\* a sensor is in HOLD at the end of a tick that it began in HOLD, away from
\* the centre of the incident it holds
C9_Witness ==
    \E i \in Drones :
        /\ pc = "events"
        /\ drones.phase[i] = HOLD
        /\ ev[i].det = "none"
        /\ drones.positions[i] # base_center
        /\ drones.positions[i] # << IncidentOf(drones.holding_incident[i]).cx,
                                    IncidentOf(drones.holding_incident[i]).cy >>

\* the detection points: the cell centres
DetectionPoints == {<<CenterX(c), CenterY(c)>> : c \in Cells}

\* the incidents flagged active with the centre within merge_radius of p, by
\* their place in the list
InRange(f, p) ==
    {k \in 1..Len(f.incidents) :
        /\ f.incidents[k].active
        /\ Dist2(p, <<f.incidents[k].cx, f.incidents[k].cy>>) <= merge_r * merge_r}

\* register at p from the Fire object f merges or creates as the claim says
RegisterContract(f, p) ==
    LET r == register_incident(f, p[1], p[2])
        n == Len(f.incidents)
    IN IF InRange(f, p) # {}
       THEN /\ r[3] = FALSE
            /\ \E k \in InRange(f, p) :
                  /\ \A j \in InRange(f, p) : k <= j
                  /\ r[2] = f.incidents[k].id
            /\ r[1].incidents = f.incidents
            /\ r[1].next_incident_id = f.next_incident_id
       ELSE /\ r[3] = TRUE
            /\ \A k \in 1..n : f.incidents[k].id # r[2]
            /\ Len(r[1].incidents) = n + 1
            /\ SubSeq(r[1].incidents, 1, n) = f.incidents
            /\ r[1].incidents[n + 1].id = r[2]
            /\ r[1].incidents[n + 1].active
            /\ <<r[1].incidents[n + 1].cx, r[1].incidents[n + 1].cy>> = p

C3_SuppressionGatesSpread ==
    /\ lit_tags \subseteq {0}
    /\ spot_tags \subseteq {0}
    /\ (pc = "move" /\ dt > 0) =>
         \A n \in Cells :
            (sim_fire.state[n] = BURNING /\ sim_fire.t_ignited[n] = sim_fire.sim_t)
            => \E s \in Cells :
                  /\ sim_fire.state[s] = BURNING
                  /\ sim_fire.tag[s] = 0
                  /\ \/ Adjacent(s, n)
                     \/ \E d \in 1..Max2(1, spot_max_cells) :
                           /\ GxOf(n) = GxOf(s) + d * SpotDx
                           /\ GyOf(n) = GyOf(s) + d * SpotDy

\* an update has just run over a tagged BURNING cell that has an UNBURNED
\* neighbour, and over an untagged one
C3_Witness ==
    /\ pc = "move"
    /\ \E i \in BurningCells, n \in Cells :
          /\ sim_fire.tag[i] \in IncidentIds
          /\ Adjacent(i, n)
          /\ sim_fire.state[n] = UNBURNED

\* C4: the frontier holds exactly the indices of the BURNING cells, each once,
\* after every update and every ignition call.
C4_FrontierIsBurning ==
    \A i \in Cells :
        sim_fire.active[i] = IF sim_fire.state[i] = BURNING THEN 1 ELSE 0

\* an update has rebuilt the frontier with a cell it lit itself
C4_Witness ==
    /\ pc = "move"
    /\ lit_tags \cup spot_tags # {}
    /\ Cardinality(BurningCells) >= 2

\* C5: a cell's state changes only UNBURNED -> BURNING -> BURNED -> UNBURNED,
\* the last only in Fire.update (recovery); BARRIER never changes and no cell
\* becomes BARRIER.
C5_StateTransitions ==
    [][\A i \in Cells :
          sim_fire'.state[i] # sim_fire.state[i] =>
             \/ sim_fire.state[i] = UNBURNED /\ sim_fire'.state[i] = BURNING
             \/ sim_fire.state[i] = BURNING /\ sim_fire'.state[i] = BURNED
             \/ /\ sim_fire.state[i] = BURNED /\ sim_fire'.state[i] = UNBURNED
                /\ pc = "update"
                /\ sim_fire.regen_t[i] + sim_fire.regen_accum + dt >= recover_T]_vars

\* a cell has burned, recovered and burns again beside a BARRIER cell
C5_Witness ==
    \E i \in BurningCells, b \in Cells :
        /\ sim_fire.ever_burned[i]
        /\ sim_fire.state[b] = BARRIER
        /\ Adjacent(i, b)

\* C6: no BURNING cell carries the id of an incident whose extinguished_t is
\* set.
C6_ExtinguishedHasNoBurningTag ==
    \A k \in 1..Len(sim_fire.incidents) :
        sim_fire.incidents[k].extinguished_t # NONE =>
            \A i \in Cells :
                sim_fire.state[i] = BURNING => sim_fire.tag[i] # sim_fire.incidents[k].id

\* an incident with a tagged footprint is extinguished and the cell at its
\* centre has recovered and burns again
C6_Witness ==
    \E k \in 1..Len(sim_fire.incidents) :
        /\ sim_fire.incidents[k].extinguished_t # NONE
        /\ sim_fire.incidents[k].final_area >= 1
        /\ \E i \in BurningCells :
              /\ CenterX(i) = sim_fire.incidents[k].cx
              /\ CenterY(i) = sim_fire.incidents[k].cy
              /\ sim_fire.ever_burned[i]
              /\ sim_fire.t_ignited[i] > sim_fire.incidents[k].extinguished_t

\* C11: with merge_radius = 0 every call of register creates an incident and
\* returns is_new = true, for every pair of detection points, a point equal to
\* the centre of an active incident included.
C11_RadiusZeroNeverMerges ==
    sim_fire.merge_r2 = 0 =>
        \A p, q \in DetectionPoints :
            LET r1 == register_incident(sim_fire, p[1], p[2])
                r2 == register_incident(r1[1], q[1], q[2])
            IN /\ r1[3] /\ r2[3]
               /\ r2[2] # r1[2]
               /\ Len(r2[1].incidents) = Len(sim_fire.incidents) + 2

\* the incidents of f, by place in the list, that carry an extinguished_t
Stamped(f) == {k \in 1..Len(f.incidents) : f.incidents[k].extinguished_t # NONE}

\* is_active on incident k of f, live and without a BURNING cell of its tag
\* on the frontier, stamps it; a second call changes nothing
StampsOnce(f, k) ==
    LET id == f.incidents[k].id
        r1 == incident_is_active(f, id)
        r2 == incident_is_active(r1[1], id)
        area == _incident_area_by_tag(f, id)
    IN /\ ~r1[2]
       /\ r1[1].incidents[k] = [f.incidents[k] EXCEPT !.active = FALSE,
                                                      !.extinguished_t = f.sim_t,
                                                      !.final_area = area]
       /\ r1[1].final_areas = Append(f.final_areas, area)
       /\ r1[1].extinguished_count = f.extinguished_count + 1
       /\ r2 = <<r1[1], FALSE>>

\* C12: the first is_active call on a live incident with no BURNING cell of
\* its tag stamps extinguished_t, stores final_area, appends one entry to
\* final_areas and adds one to extinguished_count; every later call returns
\* false and changes nothing, and no step of the program changes the stamp,
\* the final area or the inactive status of a stamped incident or the
\* entries of final_areas already written.
C12_ExtinguishedOnce ==
    /\ [](/\ \A k \in 1..Len(sim_fire.incidents) :
               LET inc == sim_fire.incidents[k]
               IN /\ (/\ inc.zone_live
                      /\ inc.extinguished_t = NONE
                      /\ ~\E c \in InActive(sim_fire) :
                            sim_fire.tag[c] = inc.id /\ sim_fire.state[c] = BURNING)
                     => StampsOnce(sim_fire, k)
                  /\ inc.extinguished_t # NONE
                     => /\ incident_is_active(sim_fire, inc.id) = <<sim_fire, FALSE>>
                        /\ ~inc.active
                        /\ inc.final_area # NONE
          /\ Cardinality(Stamped(sim_fire)) = sim_fire.extinguished_count
          /\ Len(sim_fire.final_areas) = sim_fire.extinguished_count)
    /\ [][/\ \A k \in Stamped(sim_fire) :
                /\ k <= Len(sim_fire'.incidents)
                /\ sim_fire'.incidents[k].extinguished_t = sim_fire.incidents[k].extinguished_t
                /\ sim_fire'.incidents[k].final_area = sim_fire.incidents[k].final_area
                /\ ~sim_fire'.incidents[k].active
           /\ Len(sim_fire'.final_areas) >= Len(sim_fire.final_areas)
           /\ SubSeq(sim_fire'.final_areas, 1, Len(sim_fire.final_areas))
                 = sim_fire.final_areas]_vars

\* an incident was stamped in an earlier tick, its final area is on the list
\* and the sensor that held it has been released
C12_Witness ==
    \E k \in Stamped(sim_fire) :
        /\ pc = "events"
        /\ sim_fire.incidents[k].extinguished_t < sim_fire.sim_t
        /\ sim_fire.final_areas = <<sim_fire.incidents[k].final_area>>
        /\ sim_fire.incidents[k].final_area > 0
        /\ \A i \in Drones : drones.holding_incident[i] # sim_fire.incidents[k].id

\* C13: in every tick after the start delay a sensor that begins the tick in
\* APPROACH, SEARCH, HOLD or RETURN ends it with work_remaining reduced by dt,
\* floored at 0, the tick in which it leaves HOLD included.
C13_EnergyDrainsEveryTick ==
    [][\A i \in Drones :
          (pc = "move" /\ drones.elapsed >= start_delay
              /\ drones.phase[i] \in {APPROACH, SEARCH, HOLD, RETURN})
          => drones'.work_remaining[i] = Max2(0, drones.work_remaining[i] - dt)]_vars

\* C14: a frame with dt = 0 is a no-op: update(0) and move(0) change neither
\* the Fire object (cell states, tags, burn timers, frontier, incident
\* records, counters) nor the Drone object (positions, phases, belief grids,
\* targets, timers).
C14_ZeroFrameIsNoOp ==
    [][(dt = 0 /\ pc \in {"update", "move"})
          => (sim_fire' = sim_fire /\ drones' = drones)]_vars

\* C15: two runs with the same configuration and seed, fed the same ignite
\* calls and dt values, are in identical states after every tick. The draws
\* of Fire.rng and of the battery generator Random(1337) are fixed by the
\* seed, so two such runs that agree before a fleet tick have the same Fire
\* object, the same Drone object and the same dt; the claim is that they
\* agree after it: move has one outcome.
C15_SameSeedSameTrajectory ==
    pc = "move" =>
        \A W1, W2 \in move(drones, sim_fire, dt) : W1.d = W2.d /\ W1.f = W2.f

\* the loop of Drone.move taking the sensors in the order given
RECURSIVE MoveInOrder(_, _, _, _)
MoveInOrder(S, order, k, step) ==
    IF k > Len(order) THEN S
    ELSE MoveInOrder(UNION {MoveOne(W, order[k], step) : W \in S}, order, k + 1, step)

\* the orders in which a tick can take the sensors
SensorOrders == {o \in [1..NumDrones -> Drones] : \A a, b \in 1..NumDrones : a # b => o[a] # o[b]}

\* what a tick leaves of sensor j: its state and the result of its
\* detection and registration
SensorView(W, j) ==
    [position |-> W.d.positions[j], phase |-> W.d.phase[j],
     target |-> W.d.mc_target[j], replan_timer |-> W.d.replan_timer[j],
     work_remaining |-> W.d.work_remaining[j], work_period |-> W.d.work_period[j],
     recharge_timer |-> W.d.recharge_timer[j], belief |-> W.d.belief[j],
     det_hold |-> W.d.det_hold[j], det_cooldown |-> W.d.det_cooldowns[j],
     holding_incident |-> W.d.holding_incident[j],
     detection |-> W.ev[j].det, inc_id |-> W.ev[j].id]

\* C16: within one fleet tick the state a sensor is left in and the result
\* of its detection and registration are the same for every order in which
\* the sensors are processed.
C16_OrderIndependent ==
    (pc = "move" /\ drones.elapsed >= start_delay) =>
        \A o \in SensorOrders : \A j \in Drones :
            {SensorView(W, j) :
                W \in MoveInOrder({[d |-> drones, f |-> sim_fire,
                                    ev |-> [i \in Drones |-> NoEvent]]}, o, 1, dt)}
            = {SensorView(W, j) : W \in move(drones, sim_fire, dt)}

\* C17: a fleet tick, with its detections, registrations and is_active
\* calls, changes no cell's state, tag, burn_t or t_ignited, nor the
\* frontier or the recovery timers of the grid.
C17_FleetLeavesGrid ==
    [][pc = "move"
          => /\ sim_fire'.state = sim_fire.state
             /\ sim_fire'.tag = sim_fire.tag
             /\ sim_fire'.burn_t = sim_fire.burn_t
             /\ sim_fire'.t_ignited = sim_fire.t_ignited
             /\ sim_fire'.active = sim_fire.active
             /\ sim_fire'.regen_t = sim_fire.regen_t
             /\ sim_fire'.ever_burned = sim_fire.ever_burned]_vars

\* a fleet tick has registered a new incident over a cell that burns
\* untagged
C17_Witness ==
    /\ pc = "events"
    /\ \E i \in Drones :
          /\ ev[i].det = "new"
          /\ \E c \in BurningCells :
                /\ sim_fire.tag[c] = 0
                /\ Dist2(<<CenterX(c), CenterY(c)>>,
                         <<IncidentOf(ev[i].id).cx, IncidentOf(ev[i].id).cy>>)
                      <= monitor_r * monitor_r

\* the cells that have ever been ignited
EverIgnited(f) == {c \in Cells : f.t_ignited[c] # INF}

\* the number of cells in the disc of a user click
ClickDiscSize ==
    LET r_cells == Max2(0, click_ignite_radius_px \div fire_cell_px)
    IN IF click_ignite_radius_px <= 0 THEN 1
       ELSE Cardinality({o \in ((-r_cells)..r_cells) \X ((-r_cells)..r_cells) :
                            o[1] * o[1] + o[2] * o[2] <= r_cells * r_cells})

\* C18 as claimed: the user ignition calls plus the random ignition events
\* so far are at least the number of distinct cells ever ignited.
C18_IgnitionsBoundCells ==
    sim_fire.user_ignitions + random_ignition_events
        >= Cardinality(EverIgnited(sim_fire))

\* C18: no cell is ignited before the first ignition call or event; a random
\* ignition event lights at most one cell and a user call at most the cells
\* of its click disc; the cells lit by spread and spotting in update come on
\* top, each only while a cell was burning.
C18_IgnitionsBoundDirectCells ==
    /\ [](sim_fire.user_ignitions + random_ignition_events = 0
             => EverIgnited(sim_fire) = {})
    /\ [][LET lit == {c \in Cells : sim_fire.state[c] # BURNING
                                      /\ sim_fire'.state[c] = BURNING}
          IN /\ pc = "events"
                => Cardinality(lit)
                     <= (sim_fire'.user_ignitions - sim_fire.user_ignitions) * ClickDiscSize
                        + (random_ignition_events' - random_ignition_events)
             /\ (pc = "update" /\ lit # {}) => BurningCells # {}
             /\ pc = "move" => lit = {}]_vars

\* one user click has lit two cells at once
C18_Witness ==
    /\ sim_fire.user_ignitions = 1
    /\ random_ignition_events = 0
    /\ sim_fire.sim_t = 0
    /\ Cardinality(EverIgnited(sim_fire)) = 2

\* C19: after the run-end summary every registered incident has a final_area
\* recorded and final_areas holds one entry per incident.
C19_RunEndFinalizes ==
    pc = "summary" =>
        /\ \A k \in 1..Len(sim_fire.incidents) : sim_fire.incidents[k].final_area # NONE
        /\ Len(sim_fire.final_areas) = Len(sim_fire.incidents)

\* C20: after an observation update the masses of a belief grid are
\* nonnegative and sum to 1, for every position, radius, detect_strength and
\* diffusion in [0, 1]; when the footprint leaves no mass at all the grid is
\* uniform again.  Every grid the updates reach is checked, and the update
\* of it by each footprint that leaves nothing.
IsDistribution(grid, i) ==
    /\ \A c \in BeliefCells(i) : grid[c][1] >= 0 /\ grid[c][2] > 0
    /\ RSum(grid, BeliefCells(i)) = <<1, 1>>

NothingLeft(i, grid, p, radius, detect) ==
    ~RPos(RSum(Discount(i, grid, p[1], p[2], radius, detect), BeliefCells(i)))

C20_BeliefNormalised ==
    \A i \in 0..(NumDrones - 1) :
        /\ IsDistribution(drones.belief[i], i)
        /\ \A p \in ObservePoints, radius \in ObserveRadii,
              detect \in DetectStrengths, d \in Diffusions :
                NothingLeft(i, drones.belief[i], p, radius, detect) =>
                    _observation_update(i, drones.belief[i], p[1], p[2],
                                        radius, detect, d) = UniformBelief(i)

\* a grid an update made uneven, with all its mass in cells that one more
\* footprint covers
C20_Witness ==
    \E i \in 0..(NumDrones - 1) :
        /\ drones.belief[i] # UniformBelief(i)
        /\ \E c \in BeliefCells(i) : drones.belief[i][c][1] = 0
        /\ \E p \in ObservePoints, radius \in ObserveRadii :
              NothingLeft(i, drones.belief[i], p, radius, <<1, 1>>)
        /\ \E j \in 0..(NumDrones - 1) :
              \E c \in BeliefCells(j) : drones.belief[j][c][2] > 2

\* C21: ever_burned of a cell turns true exactly in a step that takes the cell
\* from BURNING to BURNED, and is never reset afterwards, not by the recovery
\* either; every BURNED cell has ever_burned true.
C21_EverBurnedMonotone ==
    /\ [](\A c \in Cells : sim_fire.state[c] = BURNED => sim_fire.ever_burned[c])
    /\ [][\A c \in Cells :
            /\ sim_fire.ever_burned[c] => sim_fire'.ever_burned[c]
            /\ (sim_fire.state[c] = BURNING /\ sim_fire'.state[c] = BURNED)
                  => sim_fire'.ever_burned[c]
            /\ (~sim_fire.ever_burned[c] /\ sim_fire'.ever_burned[c])
                  => (sim_fire.state[c] = BURNING /\ sim_fire'.state[c] = BURNED)]_vars

\* a cell that burned out has recovered and burns again, still marked
C21_Witness ==
    \E c \in Cells :
        /\ sim_fire.ever_burned[c]
        /\ sim_fire.state[c] = BURNING
        /\ \E e \in Cells : sim_fire.ever_burned[e] /\ sim_fire.state[e] = UNBURNED

LiveIncidents(f) == {k \in 1..Len(f.incidents) : f.incidents[k].zone_live}

C23_MotionBounded ==
    [][\A i \in Drones :
          pc = "move" =>
              Dist2(drones.positions[i], drones'.positions[i]) <= Sq(drones.speed * dt)]_vars

\* C24: a sensor that is in SEARCH at the end of a tick lies inside its own
\* quadrant inset by the footprint radius.
C24_SearchInsideSector ==
    \A i \in Drones :
        (pc # "move" /\ drones.phase[i] = SEARCH)
        => /\ sectors(i).left + fov_radius <= drones.positions[i][1]
           /\ drones.positions[i][1] <= RRight(sectors(i)) - fov_radius
           /\ sectors(i).top + fov_radius <= drones.positions[i][2]
           /\ drones.positions[i][2] <= RBottom(sectors(i)) - fov_radius

\* the burning fraction in the footprint of sensor i of the fleet d is at
\* least det_min_frac
SeesFire(d, f, i) ==
    LET inside == DiscCells(d.positions[i][1], d.positions[i][2], fov_radius)
        hotspots == BurningInDisc(f, d.positions[i][1], d.positions[i][2], fov_radius)
    IN /\ inside # {}
       /\ Cardinality(hotspots) * det_min_frac[2] >= det_min_frac[1] * Cardinality(inside)

\* the part of the frame step the fleet flies (the start delay takes the rest)
FlownStep == IF drones.elapsed < start_delay THEN dt - (start_delay - drones.elapsed) ELSE dt

\* C25: a sensor registers only at a detection step that sees the fire and
\* brings det_hold to det_confirm_time or more; det_hold grows by dt at a
\* detection step that sees the fire and by nothing else, and a detection
\* step that does not see it resets det_hold to 0: the steps counted in
\* det_hold are consecutive detection steps that all saw the fire.
C25_Debounce ==
    [][\A i \in Drones :
          /\ pc # "move" => drones'.det_hold[i] = drones.det_hold[i]
          /\ pc = "move" =>
                /\ ev'[i].regs > 0 =>
                      /\ ev'[i].regs = 1
                      /\ SeesFire(drones', sim_fire, i)
                      /\ drones.det_hold[i] + FlownStep >= drones.det_confirm_time
                      /\ drones'.det_hold[i] = 0
                /\ (ev'[i].regs = 0 /\ drones'.det_hold[i] # drones.det_hold[i]) =>
                      IF SeesFire(drones', sim_fire, i)
                      THEN /\ drones'.det_hold[i] = drones.det_hold[i] + FlownStep
                           /\ drones'.det_hold[i] < drones.det_confirm_time
                      ELSE drones'.det_hold[i] = 0
                /\ (/\ drones.elapsed >= start_delay
                    /\ drones.phase[i] \in {APPROACH, SEARCH, RETURN}
                    /\ drones.holding_incident[i] = NONE
                    /\ drones.det_cooldowns[i] = 0
                    /\ ~SeesFire(drones', sim_fire, i)) =>
                      drones'.det_hold[i] = 0]_vars

\* a sensor has registered at the end of a dwell of det_confirm_time, while
\* another, which saw the fire in one step, has lost it and starts again
C25_Witness ==
    /\ pc = "move"
    /\ \E i \in Drones :
          /\ ev[i].regs = 1
          /\ drones.det_hold[i] = 0
          /\ drones.det_cooldowns[i] = det_cooldown_s
    /\ \E j \in Drones :
          /\ drones.det_hold[j] > 0
          /\ drones.det_hold[j] < drones.det_confirm_time
          /\ drones.phase[j] \in {APPROACH, SEARCH}
          /\ drones.det_cooldowns[j] = 0
          /\ \A W \in move(drones, sim_fire, dt) : ~SeesFire(W.d, sim_fire, j)

\* C26: RECHARGE is entered only from RETURN, in a tick that ends within
\* max(1, base_radius - radius) of the base centre, with recharge_timer set
\* to charge_T; it is left only to APPROACH, in the tick that takes
\* recharge_timer to 0 or below, with a work period of at least 2, the energy
\* full and the target cleared; the energy does not change in RECHARGE.
C26_RechargeCycle ==
    [][\A i \in Drones :
          /\ pc # "move" =>
                /\ drones'.phase[i] = drones.phase[i]
                /\ drones'.work_remaining[i] = drones.work_remaining[i]
          /\ (drones.phase[i] # RECHARGE /\ drones'.phase[i] = RECHARGE) =>
                /\ drones.phase[i] = RETURN
                /\ Dist2(drones'.positions[i], base_center)
                      <= Sq(Max2(1, drones.base_radius - drone_radius))
                /\ drones'.recharge_timer[i] = charge_T
          /\ (drones.phase[i] = RECHARGE /\ drones'.phase[i] # RECHARGE) =>
                /\ drones'.phase[i] = APPROACH
                /\ drones.recharge_timer[i] - dt <= 0
                /\ drones'.work_period[i] >= 2
                /\ drones'.work_remaining[i] = drones'.work_period[i]
                /\ drones'.mc_target[i] = NoTarget
          /\ (drones.phase[i] = RECHARGE /\ drones'.phase[i] = RECHARGE) =>
                /\ drones'.work_remaining[i] = drones.work_remaining[i]
                /\ drones'.work_period[i] = drones.work_period[i]
                /\ pc = "move" => drones.recharge_timer[i] - dt > 0]_vars

\* a sensor has recharged and left for its sector with full energy and no
\* target, a work period drawn anew
C26_Witness ==
    \E i \in Drones :
        /\ pc = "events"
        /\ drones.phase[i] = APPROACH
        /\ drones.positions[i] = base_center
        /\ drones.mc_target[i] = NoTarget
        /\ drones.recharge_timer[i] <= 0
        /\ drones.work_remaining[i] = drones.work_period[i]
        /\ drones.work_period[i] = Max2(2, work_T + WorkJitter)

\* the incidents the coming fire tick takes live, by place in the list
GoesLive ==
    {k \in 1..Len(sim_fire.incidents) :
        /\ ~sim_fire.incidents[k].zone_live
        /\ AdvanceIncidents(sim_fire, dt).incidents[k].zone_live}

\* the BURNING cells with the centre in the monitor disc of incident k
SeedCells(k) ==
    BurningInDisc(sim_fire, sim_fire.incidents[k].cx, sim_fire.incidents[k].cy,
                  sim_fire.monitor_r)

\* the cells 8-connected to S through BURNING cells
RECURSIVE BurningCluster(_)
BurningCluster(S) ==
    LET more == {n \in Cells \ S :
                    /\ sim_fire.state[n] = BURNING
                    /\ \E v \in S : sim_fire.state[v] = BURNING /\ Adjacent(v, n)}
    IN IF more = {} THEN S ELSE BurningCluster(S \cup more)

\* the cells 8-connected to S through BURNING cells that carry no tag
RECURSIVE UntaggedCluster(_)
UntaggedCluster(S) ==
    LET more == {n \in Cells \ S :
                    /\ sim_fire.state[n] = BURNING /\ sim_fire.tag[n] = 0
                    /\ \E v \in S : sim_fire.state[v] = BURNING /\ Adjacent(v, n)}
    IN IF more = {} THEN S ELSE UntaggedCluster(S \cup more)

BurnoutTicks(step) ==
    (sim_fire.burn_duration + (1 + quench) * step - 1) \div ((1 + quench) * step)

\* C28: with dt > 0, a cell tagged when an incident went live is no longer
\* BURNING once ceil(burn_duration / ((1 + quench_boost) * dt)) further fire
\* ticks have run; in a fire tick the burn_t of a BURNING cell under a live
\* tag advances by dt * (1 + quench_boost), that of any other by dt.
C28_BoundedBurnout ==
    /\ [](\A k \in 1..Len(sim_fire.incidents), c \in Cells :
            (/\ pc # "update" /\ dt > 0
             /\ sim_fire.incidents[k].zone_live
             /\ sim_fire.tag[c] = sim_fire.incidents[k].id
             /\ sim_fire.state[c] = BURNING)
            => sim_fire.sim_t - sim_fire.incidents[k].suppressed_t < BurnoutTicks(dt) * dt)
    /\ [][\A c \in Cells :
            (pc = "update" /\ sim_fire.state[c] = BURNING) =>
                /\ sim_fire'.state[c] \in {BURNING, BURNED}
                /\ sim_fire'.burn_t[c] =
                      sim_fire.burn_t[c]
                        + (IF AdvanceIncidents(sim_fire, dt).tag[c]
                                \in LiveTagIds(AdvanceIncidents(sim_fire, dt))
                           THEN dt * (1 + quench) ELSE dt)
                /\ sim_fire'.state[c] = BURNED <=> sim_fire'.burn_t[c] >= sim_fire.burn_duration]_vars

\* a cell tagged when its incident went live still burns after a further
\* fire tick, its burn_t short of burn_duration
C28_Witness ==
    \E k \in 1..Len(sim_fire.incidents), c \in Cells :
        /\ pc = "move"
        /\ sim_fire.incidents[k].zone_live
        /\ sim_fire.sim_t > sim_fire.incidents[k].suppressed_t
        /\ sim_fire.tag[c] = sim_fire.incidents[k].id
        /\ sim_fire.state[c] = BURNING
        /\ sim_fire.burn_t[c] < sim_fire.burn_duration

\* C29: a nonzero tag appears only on cells in state BURNING or BURNED, so
\* every UNBURNED or BARRIER cell has tag 0, and a cell that has just been
\* ignited has tag 0.
C29_TagOnlyOnBurningOrBurned ==
    /\ [](\A c \in Cells :
            sim_fire.tag[c] # 0 => sim_fire.state[c] \in {BURNING, BURNED})
    /\ [][\A c \in Cells :
            (sim_fire.state[c] # BURNING /\ sim_fire'.state[c] = BURNING)
                => sim_fire'.tag[c] = 0]_vars

\* a cell that burned under the tag of a live incident has recovered to
\* UNBURNED and been ignited again
C29_Witness ==
    \E k \in 1..Len(sim_fire.incidents), c \in Cells :
        /\ sim_fire.incidents[k].zone_live
        /\ sim_fire.incidents[k].final_area >= 1
        /\ CenterX(c) = sim_fire.incidents[k].cx
        /\ CenterY(c) = sim_fire.incidents[k].cy
        /\ sim_fire.ever_burned[c]
        /\ sim_fire.state[c] = BURNING
        /\ sim_fire.t_ignited[c] = sim_fire.sim_t
        /\ sim_fire.tag[c] = 0

\* the cells an ignite request at cell (gx, gy) targets, off the grid or not
IgniteTargets(gx, gy) ==
    {<<gx + IgniteOffsets[k][1], gy + IgniteOffsets[k][2]>> : k \in 1..Len(IgniteOffsets)}

\* the cells of the grid among the targets that are UNBURNED in f
Ignitable(f, targets) ==
    {c \in Cells : <<GxOf(c), GyOf(c)>> \in targets /\ f.state[c] = UNBURNED}

\* g is f with exactly the cells of lit ignited at f.sim_t
IgnitedOnly(f, g, lit) ==
    /\ DOMAIN g.state = Cells
    /\ DOMAIN g.tag = Cells
    /\ g.tag = f.tag
    /\ \A c \in Cells :
          IF c \in lit
          THEN /\ g.state[c] = BURNING
               /\ g.t_ignited[c] = f.sim_t
               /\ g.active[c] = f.active[c] + 1
          ELSE /\ g.state[c] = f.state[c]
               /\ g.t_ignited[c] = f.t_ignited[c]
               /\ g.active[c] = f.active[c]
    /\ lit = {} => (g.state = f.state /\ g.tag = f.tag /\ g.active = f.active)

\* C30: an ignite request changes no cell outside the grid and fails on
\* none; when every targeted cell is outside the grid or not UNBURNED the
\* cell states, the tags and the frontier are unchanged; the targeted cells
\* inside the grid that are UNBURNED become BURNING with t_ignited = sim_t.
\* The requests are those the driver can serve between two frames, and one
\* cell beyond the grid on every side.
C30_OutOfGridIgnitionIgnored ==
    /\ [](\A gx \in (-1)..GW, gy \in (-1)..GH :
            pc = "events" =>
            /\ IgnitedOnly(sim_fire, _ignite_cell(sim_fire, gx, gy),
                           Ignitable(sim_fire, {<<gx, gy>>}))
            /\ IgnitedOnly(sim_fire,
                           ignite_world(sim_fire, gx * fire_cell_px + fire_cell_px \div 2,
                                                  gy * fire_cell_px + fire_cell_px \div 2),
                           Ignitable(sim_fire, IgniteTargets(gx, gy))))
    /\ [][sim_fire'.user_ignitions = sim_fire.user_ignitions + 1 =>
            \E i \in Cells :
                IgnitedOnly(sim_fire, sim_fire',
                            Ignitable(sim_fire, IgniteTargets(GxOf(i), GyOf(i))))]_vars

\* a click whose every target is off the grid or a barrier has been served:
\* it is counted and nothing burns
C30_Witness ==
    /\ sim_fire.user_ignitions = 1
    /\ sim_fire.sim_t = 0
    /\ \E i \in Cells :
          /\ \E t \in IgniteTargets(GxOf(i), GyOf(i)) : ~InGrid(t[1], t[2])
          /\ Ignitable(sim_fire, IgniteTargets(GxOf(i), GyOf(i))) = {}
    /\ \A c \in Cells : sim_fire.state[c] # BURNING /\ sim_fire.active[c] = 0

\* 1 - (1 - s)^2
TwiceStrength(s) == RSub1(RMul(RSub1(s), RSub1(s)))

\* two updates of grid with strength s against one with 1 - (1 - s)^2,
\* without diffusion
TwoAsOne(i, grid, p, radius, s) ==
    _observation_update(i, _observation_update(i, grid, p[1], p[2], radius, s, <<0, 1>>),
                        p[1], p[2], radius, s, <<0, 1>>)
      = _observation_update(i, grid, p[1], p[2], radius, TwiceStrength(s), <<0, 1>>)

C32_HoldsWhereItConfirmed ==
    \A i \in Drones :
        drones.phase[i] = HOLD => drones.positions[i] = ev[i].at

\* C33: every incident that goes live is eventually stamped extinguished,
\* whatever the sensor that holds it does meanwhile.  extinguished_t is set
\* by incident_is_active(k) alone, which only a sensor whose
\* _holding_incident is k calls, and _holding_incident is only ever set to
\* the id of an incident the sensor has just created; so an incident that is
\* live and not yet stamped has to be held by some sensor, or no later tick
\* stamps it.
C33_LiveIncidentStaysHeld ==
    \A k \in 1..Len(sim_fire.incidents) :
        (sim_fire.incidents[k].zone_live /\ sim_fire.incidents[k].extinguished_t = NONE)
            => \E i \in Drones : drones.holding_incident[i] = sim_fire.incidents[k].id

\* incident k has fire: once live a BURNING cell with its tag, before that a
\* BURNING cell inside its monitor disc
HasFire(k) ==
    IF sim_fire.incidents[k].zone_live
    THEN \E c \in BurningCells : sim_fire.tag[c] = sim_fire.incidents[k].id
    ELSE BurningInDisc(sim_fire, sim_fire.incidents[k].cx, sim_fire.incidents[k].cy,
                       sim_fire.monitor_r) # {}

\* C34: at the end of every tick the active flag of an incident is true
\* exactly when the incident has fire, and a detection that register merged
\* in that tick was merged into an incident that has fire.
C34_ActiveFlagFresh ==
    pc = "events" =>
        /\ \A k \in 1..Len(sim_fire.incidents) :
              sim_fire.incidents[k].active <=> HasFire(k)
        /\ \A i \in Drones :
              ev[i].det = "merged" =>
                  \E k \in 1..Len(sim_fire.incidents) :
                      sim_fire.incidents[k].id = ev[i].id /\ HasFire(k)

\* C35: a burning episode, a maximal run of ticks with a non-empty frontier,
\* in which register was never called adds exactly one to undetected_count,
\* in the fire tick that empties its frontier, and an episode in which
\* register was called adds nothing; no other step changes the count, and an
\* incident registered in an earlier episode masks no later one.
C35_UndetectedEpisodes ==
    [][sim_fire'.undetected_count =
          sim_fire.undetected_count
            + (IF /\ pc = "update"
                  /\ InActive(sim_fire) # {}
                  /\ InActive(sim_fire') = {}
                  /\ \A i \in Drones : ~ev[i].seen
               THEN 1 ELSE 0)]_vars

\* the frames a return is given before the frames of the model end
ReturnTicks == 3

\* C36: with speed > 0 and dt > 0 a sensor that enters RETURN eventually
\* enters RECHARGE, a detection confirmed on the way and the HOLD it brings
\* notwithstanding; RECHARGE starts with recharge_timer = charge_T, lasts
\* until the timer has run out, and ends in APPROACH with
\* energy_remaining = energy_period.  The frames of the model stop at
\* MaxRunTime, so the property is about the returns and recharges that start
\* early enough to finish.
C36_ReturnCompletes ==
    /\ \A i \in Drones :
          (drones.phase[i] = RETURN /\ sim_fire.sim_t + ReturnTicks <= MaxRunTime)
             ~> (drones.phase[i] = RECHARGE)
    /\ \A i \in Drones :
          (drones.phase[i] = RECHARGE /\ sim_fire.sim_t + charge_T <= MaxRunTime)
             ~> (/\ drones.phase[i] = APPROACH
                 /\ drones.work_remaining[i] = drones.work_period[i])
    /\ [][\A i \in Drones :
            /\ (drones.phase[i] # RECHARGE /\ drones'.phase[i] = RECHARGE)
                  => drones'.recharge_timer[i] = charge_T
            /\ (pc = "move" /\ drones.phase[i] = RECHARGE) =>
                  IF drones.recharge_timer[i] - dt <= 0
                  THEN /\ drones'.phase[i] = APPROACH
                       /\ drones'.work_remaining[i] = drones'.work_period[i]
                  ELSE /\ drones'.phase[i] = RECHARGE
                       /\ drones'.recharge_timer[i] = drones.recharge_timer[i] - dt]_vars

\* a sensor on its way back confirmed a detection and is in HOLD, its energy
\* low, with the ticks left that its return takes
C36_Witness ==
    \E i \in Drones :
        /\ pc = "events"
        /\ drones.phase[i] = HOLD
        /\ ev[i].det = "new"
        /\ _should_return_now(drones, i)
        /\ sim_fire.sim_t + ReturnTicks <= MaxRunTime

\* the incidents of f, by place in the list, whose suppression has started
Live(f) == {k \in 1..Len(f.incidents) : f.incidents[k].zone_live}

\* C37: in every reachable state extinguished_count <= dispatch_count <=
\* number of incidents = next_incident_id - 1; len(final_areas) =
\* extinguished_count = number of incidents with extinguished_t set;
\* dispatch_count = number of zone_live incidents; len(det_times) =
\* len(detect_areas) = number of incidents; the ids are 1..n in the order of
\* creation, none twice.
C37_CounterConsistency ==
    /\ sim_fire.extinguished_count <= sim_fire.dispatch_count
    /\ sim_fire.dispatch_count <= Len(sim_fire.incidents)
    /\ Len(sim_fire.incidents) = sim_fire.next_incident_id - 1
    /\ Len(sim_fire.final_areas) = sim_fire.extinguished_count
    /\ sim_fire.extinguished_count = Cardinality(Stamped(sim_fire))
    /\ sim_fire.dispatch_count = Cardinality(Live(sim_fire))
    /\ Len(sim_fire.det_times) = Len(sim_fire.incidents)
    /\ Len(sim_fire.detect_areas) = Len(sim_fire.incidents)
    /\ \A k \in 1..Len(sim_fire.incidents) : sim_fire.incidents[k].id = k

\* two incidents, the first extinguished, the second not yet live: the three
\* counters differ
C37_Witness ==
    /\ Len(sim_fire.incidents) = 2
    /\ sim_fire.dispatch_count = 1
    /\ sim_fire.extinguished_count = 1
    /\ Stamped(sim_fire) = {1}

\* C38: in every reachable state no two distinct sensors have the same
\* non-null held incident id, and a sensor in HOLD has a non-null held
\* incident id that is the id of a registered incident.
C38_OneHolderPerIncident ==
    \A i \in Drones :
        /\ \A j \in Drones \ {i} :
              drones.holding_incident[i] # NONE
                 => drones.holding_incident[j] # drones.holding_incident[i]
        /\ drones.phase[i] = HOLD =>
              /\ drones.holding_incident[i] # NONE
              /\ \E k \in 1..Len(sim_fire.incidents) :
                    sim_fire.incidents[k].id = drones.holding_incident[i]

\* a sensor confirms a detection that is merged into the incident another
\* sensor holds in HOLD
C38_Witness ==
    \E i \in Drones : \E j \in Drones \ {i} :
        /\ drones.phase[i] = HOLD
        /\ ev[j].det = "merged"
        /\ ev[j].id = drones.holding_incident[i]

\* C39: between two consecutive confirmed detections by the same sensor, the
\* detection steps the sensor executes, from the one after the first
\* confirmation to the one that confirms the second, have dt values that sum
\* to at least det_cooldown_s + det_confirm_time; a tick the sensor starts in
\* HOLD or RECHARGE executes no detection step and leaves the cooldown as it
\* is.
C39_CooldownSpacing ==
    [][\A i \in Drones :
          /\ (pc = "move" /\ ev'[i].det # "none" /\ ev[i].nth > 0)
                => ev[i].since + ev'[i].step
                      >= det_cooldown_s + drones.det_confirm_time
          /\ (pc = "move" /\ drones.phase[i] \in {HOLD, RECHARGE})
                => /\ drones'.det_cooldowns[i] = drones.det_cooldowns[i]
                   /\ ev'[i].step = 0]_vars

\* a sensor has just confirmed its second detection
C39_Witness ==
    \E i \in Drones :
        /\ pc = "events"
        /\ ev[i].det # "none"
        /\ ev[i].nth = 2
====
